---------------------------- MODULE Spec2Model ----------------------------
(***************************************************************************)
(* Model of the invoice service (invoiceService in src/unnamed/part_000):  *)
(* the Firestore documents it reads and writes (the counter document       *)
(* counters/invoices, the invoices collection and each invoice's items     *)
(* subcollection) and the service calls of several client processes,       *)
(* one action per store request a call awaits.                             *)
(***************************************************************************)
EXTENDS Integers, Sequences, FiniteSets, TLC

(***************************************************************************)
(* Bounds of the model.                                                    *)
(***************************************************************************)
NumClients == 2
MaxIds == 2
MaxItems == 1
MaxAttempts == 2
MaxLines == 2
MaxFetches == 2
MaxGuest == 3

Clients == 1..NumClients
Users == {"u1", "u2"}
Ids == 1..MaxIds
\* What new Date().getFullYear() returns on the clients: the model runs within
\* one calendar year.
Years == {2025}

NoDoc == -1
NoId == 0
NoNum == <<>>
NoTime == 0

(***************************************************************************)
(* Strings are sequences of one-character strings.                         *)
(***************************************************************************)
DigitChar == <<"0", "1", "2", "3", "4", "5", "6", "7", "8", "9">>

RECURSIVE toString(_)
toString(n) ==
    IF n < 10 THEN <<DigitChar[n + 1]>>
    ELSE toString(n \div 10) \o <<DigitChar[(n % 10) + 1]>>

\* String.prototype.slice(-k): the last k characters (the whole string when shorter).
SliceLast(s, k) ==
    IF Len(s) <= k THEN s ELSE SubSeq(s, Len(s) - k + 1, Len(s))

\* String.prototype.padStart(w, ch): a minimum width, never a truncation.
RECURSIVE PadStart(_, _, _)
PadStart(s, w, ch) ==
    IF Len(s) >= w THEN s ELSE PadStart(<<ch>> \o s, w, ch)

currentYearShort(y) == SliceLast(toString(y), 2)

\* A mutation of paddedNumber: the field is cut to its width.
paddedNumberCut(n) == SliceLast(PadStart(toString(n), 3, "0"), 3)

paddedNumber(n) == PadStart(toString(n), 3, "0")

\* `BILL/${currentYearShort}/${paddedNumber}`
invoiceNumber(y, n) ==
    <<"B", "I", "L", "L", "/">> \o currentYearShort(y) \o <<"/">> \o paddedNumber(n)

\* A mutation of nextNumber: the increment is forgotten.
nextNumberNoIncrement(counterDoc) ==
    IF counterDoc = NoDoc THEN 1 ELSE counterDoc

\* A mutation of nextNumber: the counter is advanced by two.
nextNumberSkips(counterDoc) ==
    IF counterDoc = NoDoc THEN 1 ELSE counterDoc + 2

\* nextNumber of createInvoice: 1 when the counter document is absent, else
\* (Number(lastInvoiceNumber) || 0) + 1.  The counter only ever holds what
\* createInvoice wrote, a number, so Number(..) || 0 is the number itself.
nextNumber(counterDoc) ==
    IF counterDoc = NoDoc THEN 1 ELSE counterDoc + 1

(***************************************************************************)
(* Reading numbers back from strings (used to state the properties).       *)
(***************************************************************************)
DigitValue(ch) == CHOOSE d \in 0..9 : DigitChar[d + 1] = ch

RECURSIVE ParseNat(_)
ParseNat(s) ==
    IF s = <<>> THEN 0
    ELSE 10 * ParseNat(SubSeq(s, 1, Len(s) - 1)) + DigitValue(s[Len(s)])

LastSlash(s) ==
    LET P == {i \in 1..Len(s) : s[i] = "/"}
    IN  CHOOSE i \in P : \A j \in P : j <= i

\* The numeric suffix of a minted invoice number: what follows its last "/".
Suffix(s) == ParseNat(SubSeq(s, LastSlash(s) + 1, Len(s)))

\* The invoice numbers a caller asks updateInvoiceNumber for: those the
\* allocator mints for the first headers.
RenameTargets == {invoiceNumber(y, n) : y \in Years, n \in 1..MaxIds}

(***************************************************************************)
(* Numbers and the amounts of an invoice.  A decimal is held as its value  *)
(* times Scale.  The numbers the model feeds in are whole, so every        *)
(* product and every percentage is exact in this unit; the rounding of     *)
(* IEEE doubles is outside the model.                                      *)
(* A value handed in for quantity or price is a number, NaN, a string or   *)
(* undefined (a missing field): [t, n, s] with n the number, s the string. *)
(***************************************************************************)
Scale == 100

jsNumber(n) == [t |-> "number", n |-> n * Scale, s |-> <<>>]
jsString(s) == [t |-> "string", n |-> 0, s |-> s]
undefined == [t |-> "undefined", n |-> 0, s |-> <<>>]
NaN == [t |-> "NaN", n |-> 0, s |-> <<>>]

IsDigits(s) == \A i \in 1..Len(s) : \E d \in 1..10 : DigitChar[d] = s[i]

\* Number(x): a number is itself, a string of digits its value ("" is 0),
\* any other string and undefined are NaN.
Number(x) ==
    CASE x.t = "number" -> [nan |-> FALSE, v |-> x.n]
      [] x.t = "string" -> IF IsDigits(x.s)
                           THEN [nan |-> FALSE, v |-> ParseNat(x.s) * Scale]
                           ELSE [nan |-> TRUE, v |-> 0]
      [] OTHER -> [nan |-> TRUE, v |-> 0]

\* A mutation of orZero: NaN is taken for 1.
orZeroNaNIsOne(x) == IF x.nan THEN Scale ELSE x.v

\* x || 0: NaN and 0 are falsy.
orZero(x) == IF x.nan \/ x.v = 0 THEN 0 ELSE x.v

\* The product of two decimals.
product(a, b) == (a * b) \div Scale

\* items.map(item => ({...item, quantity, price, total}))
calculatedItems(its) ==
    [i \in 1..Len(its) |->
       [quantity |-> orZero(Number(its[i].quantity)),
        price |-> orZero(Number(its[i].price)),
        total |-> product(orZero(Number(its[i].quantity)),
                        orZero(Number(its[i].price)))]]

\* calculatedItems.reduce((acc, curr) => acc + curr.total, 0)
RECURSIVE subTotal(_)
subTotal(calc) ==
    IF calc = <<>> THEN 0
    ELSE subTotal(SubSeq(calc, 1, Len(calc) - 1)) + calc[Len(calc)].total

\* A mutation of discountAmount: a percentage is taken for a fixed amount.
discountAmountAlwaysFixed(discountType, discountValue, sub) == discountValue

\* discountType === 'percentage' ? subTotal * (discountValue / 100) : discountValue
discountAmount(discountType, discountValue, sub) ==
    IF discountType = "percentage"
    THEN product(sub, discountValue \div 100)
    ELSE discountValue

\* Math.max(0, subTotal - discountAmount)
grandTotal(sub, disc) == IF sub - disc > 0 THEN sub - disc ELSE 0

(***************************************************************************)
(* What callers hand to createInvoice: [items, discountType,               *)
(* discountValue].                                                         *)
(***************************************************************************)
\* The item of a new form: quantity '1', price '0', sent as Number(..).
FormItem == [quantity |-> jsNumber(1), price |-> jsNumber(0)]

\* The invoice a form sends as it opens: one item, no discount.
FormInputs ==
    {[items |-> <<FormItem>>, discountType |-> "percentage", discountValue |-> 0]}

\* The invoice a form sends with its items untouched and no discount.
PlainInputs ==
    {[items |-> [i \in 1..n |-> FormItem],
      discountType |-> "percentage", discountValue |-> 0] : n \in 1..MaxItems}

\* The invoice a form sends with MaxLines items untouched and no discount.
LinesInputs ==
    {[items |-> [i \in 1..MaxLines |-> FormItem],
      discountType |-> "percentage", discountValue |-> 0]}

\* Items with quantity and price as numbers, as a string of digits and a
\* string of letters, missing, NaN, and a price below zero (the price field of
\* the form has no minimum).
ItemPool ==
    {[quantity |-> jsNumber(2), price |-> jsNumber(100)],
     [quantity |-> jsNumber(1), price |-> jsNumber(50)],
     [quantity |-> jsString(<<"3">>), price |-> jsString(<<"a", "b", "c">>)],
     [quantity |-> undefined, price |-> NaN],
     [quantity |-> jsNumber(1), price |-> jsNumber(0 - 5)]}

\* Discounts below, at and above the subtotals of these items.
Discounts ==
    {[discountType |-> "fixed", discountValue |-> 30 * Scale],
     [discountType |-> "fixed", discountValue |-> 1000 * Scale],
     [discountType |-> "percentage", discountValue |-> 10 * Scale],
     [discountType |-> "percentage", discountValue |-> 150 * Scale]}

AmountInputs ==
    {[items |-> its, discountType |-> d.discountType,
      discountValue |-> d.discountValue] :
        its \in UNION {[1..n -> ItemPool] : n \in 1..MaxLines},
        d \in Discounts}

\* The reading of Timestamp.now() where the model runs at one moment.
Noon == 1

(***************************************************************************)
(* State.                                                                  *)
(*   counter   lastInvoiceNumber of counters/invoices, NoDoc when absent   *)
(*   headers   the invoices collection: id -> [userId, invoiceNumber,      *)
(*             subTotal, discountType, discountValue, discountAmount,      *)
(*             grandTotal, createdAt]                                      *)
(*   items     the items subcollections: documents [hdr, id, quantity,     *)
(*             price, total]                                               *)
(*   usedIds   the document ids of committed headers (auto-ids are never   *)
(*             generated twice)                                            *)
(*   call      each client's service call in progress: its position, its   *)
(*             arguments and its local variables; issued tells whether the *)
(*             call has sent a write to the store                          *)
(*   inflight  the item deleteDoc requests issued and not yet answered;    *)
(*             client 0 marks a request whose deleteInvoice has already    *)
(*             thrown                                                      *)
(*   app       the state of one running App (the React state of App, of    *)
(*             its InvoiceForm and of its InvoicePrintTemplate), with the  *)
(*             fetchInvoices calls it has under way                        *)
(* History, read only by the properties:                                   *)
(*   minted    the invoice numbers of the committed createInvoice calls,   *)
(*             in commit order                                             *)
(*   created   id -> [userId, invoiceNumber, nItems, createdAt] as         *)
(*             committed, the year its transaction read, the items,        *)
(*             discountType and discountValue its createInvoice was called *)
(*             with, and itemIds, the document id of each item in the      *)
(*             order of the items handed in                                *)
(*   touched   the headers a deleteInvoice has issued a delete for         *)
(*   deletedOk the headers whose deleteInvoice has completed successfully  *)
(*   initial   the counter document at the start                           *)
(***************************************************************************)
VARIABLES counter, headers, items, usedIds, call, inflight, app,
          minted, created, touched, deletedOk, initial

store == <<counter, headers, items>>
history == <<minted, created, touched, deletedOk, initial>>
vars == <<counter, headers, items, usedIds, call, inflight, app,
          minted, created, touched, deletedOk, initial>>

EmptyMap == [x \in {} |-> x]

IdleCall ==
    [pc |-> "idle", op |-> "none", userId |-> "", invoiceId |-> NoId,
     newInvoiceNumber |-> NoNum, items |-> <<>>, discountType |-> "",
     discountValue |-> 0, year |-> NoTime, createdAt |-> NoTime,
     counterDoc |-> NoDoc,
     attempts |-> 0, error |-> "", result |-> "none", ret |-> NoId,
     issued |-> FALSE]

\* The uid of GUEST_USER.
GuestUid == "guest_session"

\* The App as it starts: nobody signed in (user null, "" here), the history
\* tab, no invoice selected, empty lists, and a new InvoiceForm.  fetches are
\* the fetchInvoices calls under way, [n, uid, stage, data]: sent, or answered
\* by getInvoices with data or with an error and not yet back in the App.
\* pending is the handler awaiting a call of the service, and the uid of the
\* user it runs for.
\* isDownloading, hasAutoDownloaded, timer and timerSees are the state, the
\* ref and the pending timeout of the mounted InvoicePrintTemplate, timerSees
\* being the isDownloading of the render whose handleDownloadPDF the timeout
\* calls.
\* History, read only by the properties: issued counts the fetchInvoices
\* calls, results[n] is what getInvoices answered the n-th, guestMinted counts
\* the guest invoices made, generating the PDF generations of the mounted
\* preview in progress and autoStarted those its timer started.
IdleApp ==
    [user |-> "", activeTab |-> "history", selectedInvoice |-> NoId,
     autoPrintMode |-> FALSE, invoices |-> <<>>, invoicesLoading |-> FALSE,
     guestInvoices |-> <<>>, fetches |-> {}, issued |-> 0, results |-> <<>>,
     pending |-> [handler |-> "none", uid |-> ""],
     customerName |-> "", descriptions |-> <<"">>, error |-> "",
     isSubmitting |-> FALSE, guestMinted |-> 0,
     isDownloading |-> FALSE, hasAutoDownloaded |-> FALSE, timer |-> FALSE,
     timerSees |-> FALSE, generating |-> 0, autoStarted |-> 0]

Init ==
    /\ counter = NoDoc
    /\ headers = EmptyMap
    /\ items = {}
    /\ usedIds = {}
    /\ call = [c \in Clients |-> IdleCall]
    /\ inflight = {}
    /\ app = IdleApp
    /\ minted = <<>>
    /\ created = EmptyMap
    /\ touched = {}
    /\ deletedOk = {}
    /\ initial = counter

\* A call returns or throws: its arguments and local variables are gone (the
\* number of attempts of its transaction is kept for the properties).
Finish(c, res, ret) ==
    [call EXCEPT ![c] =
       [IdleCall EXCEPT !.pc = "done", !.op = call[c].op, !.result = res,
                        !.ret = ret, !.issued = call[c].issued,
                        !.attempts = call[c].attempts]]

\* A call returns or throws after a write request of its own.
Issued(c, res) ==
    [call EXCEPT ![c] =
       [IdleCall EXCEPT !.pc = "done", !.op = call[c].op, !.result = res,
                        !.issued = TRUE]]

\* A client starts its next call when it has none running: at the start, or
\* once the last one has returned or thrown.
Free(c) == call[c].pc \in {"idle", "done"}

(***************************************************************************)
(* createInvoice                                                           *)
(***************************************************************************)
\* Client c has called createInvoice for user u with the arguments in.
createInvoiceCalled(c, u, in) ==
    [call EXCEPT ![c] =
       [IdleCall EXCEPT !.pc = "cr_get", !.op = "create", !.userId = u,
                        !.items = in.items,
                        !.discountType = in.discountType,
                        !.discountValue = in.discountValue,
                        !.attempts = 1]]

\* The bound on the headers ever committed stops new attempts.
StartCreate(c, u, in) ==
    /\ Free(c)
    /\ Cardinality(usedIds) < MaxIds
    /\ call' = createInvoiceCalled(c, u, in)
    /\ UNCHANGED <<store, usedIds, inflight, history, app>>

\* The ids doc(collection(db, 'invoices')) can generate: none that a header
\* has or had.
FreeIds == Ids \ usedIds

\* Auto-ids are random and only ever compared for equality or sorted by the
\* store, and the id of an attempt that does not commit is seen by nobody: the
\* model takes the least free one, when the attempt commits.
newDocId == CHOOSE i \in FreeIds : \A j \in FreeIds : i <= j

\* The transaction body: transaction.get(counterRef), the number, and the
\* writes buffered for the commit.  new Date() and Timestamp.now() read the
\* client's clock: the year is one of years, the time one of times.
TransactionBody(c, years, times) ==
    /\ call[c].pc = "cr_get"
    /\ Cardinality(usedIds) < MaxIds
    /\ \E y \in years, t \in times :
         call' = [call EXCEPT ![c] =
                    [@ EXCEPT !.pc = "cr_commit", !.counterDoc = counter,
                              !.newInvoiceNumber =
                                  invoiceNumber(y, nextNumber(counter)),
                              !.year = y, !.createdAt = t]]
    /\ UNCHANGED <<store, usedIds, inflight, history, app>>

\* A mutation of transactionItems: the items are left out of the transaction.
transactionItemsNone(ref, calc, itemRef) == {}

\* calculatedItems.forEach: one transaction.set per input item, under the new
\* header; itemRef[k] is the id doc(collection(newInvoiceRef, 'items'))
\* generated for the k-th item.
transactionItems(ref, calc, itemRef) ==
    {[hdr |-> ref, id |-> itemRef[k], quantity |-> calc[k].quantity,
      price |-> calc[k].price, total |-> calc[k].total] : k \in 1..Len(calc)}

\* The ids the store's generator can give the n items of a header: random,
\* distinct, in any order; within one subcollection only their order counts,
\* so they are the orderings of 1..n.
itemAutoIds(n) ==
    {f \in [1..n -> 1..n] : \A i, j \in 1..n : i # j => f[i] # f[j]}

\* A mutation of createInvoiceCatch: the error is swallowed.
createInvoiceCatchSwallow(error) == "ok"

\* catch (error) { console.error(..); throw error; }
createInvoiceCatch(error) == error

\* A mutation of readUnchanged: the counter is read outside the transaction
\* (getDoc instead of transaction.get), so the commit validates nothing.
readUnchangedAlways(now, read) == TRUE

\* runTransaction commits only when the document read by transaction.get is
\* still as it was read.  Every write of the counter changes its value, so
\* comparing the values is comparing the versions.
readUnchanged(now, read) == now = read

\* Timestamp.now() is Timestamp.fromMillis(Date.now()): whole seconds and the
\* rest in nanoseconds.  ms is the reading of the client's clock.
TimestampFromMillis(ms) ==
    [seconds |-> ms \div 1000, nanoseconds |-> (ms % 1000) * 1000000]

\* transaction.set(newInvoiceRef, {..}): the header, with the amounts computed
\* before the transaction.  The customer fields, the date and the currency
\* symbol are copied from the arguments and read by no decision of the
\* service: the model leaves them out.
invoiceHeader(k, calc) ==
    LET sub == subTotal(calc)
        disc == discountAmount(k.discountType, k.discountValue, sub) IN
    [userId |-> k.userId,
     invoiceNumber |-> k.newInvoiceNumber,
     subTotal |-> sub,
     discountType |-> k.discountType,
     discountValue |-> k.discountValue,
     discountAmount |-> disc,
     grandTotal |-> grandTotal(sub, disc),
     createdAt |-> TimestampFromMillis(k.createdAt)]

\* The commit finds the counter as the body read it and applies every buffered
\* write at once.  The ids of the items are those generated by the attempt that
\* commits.
CommitOk(c) ==
    LET k == call[c]
        newInvoiceRef == newDocId
        calc == calculatedItems(k.items) IN
    /\ k.pc = "cr_commit"
    /\ readUnchanged(counter, k.counterDoc)
    /\ FreeIds # {}
    /\ headers' = (newInvoiceRef :> invoiceHeader(k, calc)) @@ headers
    /\ counter' = nextNumber(k.counterDoc)
    /\ usedIds' = usedIds \cup {newInvoiceRef}
    /\ minted' = Append(minted, k.newInvoiceNumber)
    /\ \E itemRef \in itemAutoIds(Len(calc)) :
         /\ items' = items \cup transactionItems(newInvoiceRef, calc, itemRef)
         /\ created' =
                (newInvoiceRef :> [userId |-> k.userId,
                                     invoiceNumber |-> k.newInvoiceNumber,
                                     nItems |-> Len(k.items),
                                     itemIds |-> itemRef,
                                     year |-> k.year,
                                     createdAt |-> TimestampFromMillis(k.createdAt),
                                     items |-> k.items,
                                     discountType |-> k.discountType,
                                     discountValue |-> k.discountValue]) @@ created
    /\ call' = [Finish(c, "ok", newInvoiceRef) EXCEPT ![c].issued = TRUE]
    /\ UNCHANGED <<inflight, touched, deletedOk, initial, app>>

\* The store rejects the commit (a write is refused, the store is unreachable):
\* runTransaction throws without retrying and nothing is written.
CommitRejected(c) ==
    /\ call[c].pc = "cr_commit"
    /\ call' = Finish(c, createInvoiceCatch("StoreError"), NoId)
    /\ UNCHANGED <<store, usedIds, inflight, history, app>>

\* A mutation of CommitConflict: the body is run again without a limit.
CommitConflictNoLimit(c) ==
    LET k == call[c] IN
    /\ k.pc = "cr_commit"
    /\ ~readUnchanged(counter, k.counterDoc)
    /\ call' = [call EXCEPT ![c] =
                  [@ EXCEPT !.pc = "cr_get", !.attempts = @ + 1,
                            !.newInvoiceNumber = NoNum,
                            !.year = NoTime, !.createdAt = NoTime,
                            !.counterDoc = NoDoc]]
    /\ UNCHANGED <<store, usedIds, inflight, history, app>>

\* A mutation of CommitConflict: the header the discarded attempt has set is
\* written all the same.
CommitConflictKeepsHeader(c) ==
    LET k == call[c] IN
    /\ k.pc = "cr_commit"
    /\ ~readUnchanged(counter, k.counterDoc)
    /\ FreeIds # {}
    /\ headers' = (newDocId :> invoiceHeader(k, calculatedItems(k.items))) @@ headers
    /\ usedIds' = usedIds \cup {newDocId}
    /\ call' = [call EXCEPT ![c] =
                  [@ EXCEPT !.pc = "cr_get", !.attempts = @ + 1]]
    /\ UNCHANGED <<counter, items, inflight, history, app>>

\* The counter changed since the body read it: the attempt is discarded and the
\* body runs again, up to MaxAttempts times; then runTransaction throws.
CommitConflict(c) ==
    LET k == call[c] IN
    /\ k.pc = "cr_commit"
    /\ ~readUnchanged(counter, k.counterDoc)
    /\ IF k.attempts < MaxAttempts
       THEN call' = [call EXCEPT ![c] =
                       [@ EXCEPT !.pc = "cr_get", !.attempts = @ + 1,
                                 !.newInvoiceNumber = NoNum,
                                 !.year = NoTime, !.createdAt = NoTime,
                                 !.counterDoc = NoDoc]]
       ELSE call' = Finish(c, createInvoiceCatch("Aborted"), NoId)
    /\ UNCHANGED <<store, usedIds, inflight, history, app>>

\* createInvoice with its arguments drawn from inputs and its clock readings
\* from years and times.
createInvoiceFrom(c, inputs, years, times) ==
    \/ \E u \in Users, in \in inputs : StartCreate(c, u, in)
    \/ TransactionBody(c, years, times)
    \/ CommitOk(c)
    \/ CommitRejected(c)
    \/ CommitConflict(c)

createInvoice(c) == createInvoiceFrom(c, PlainInputs, Years, {Noon})

(***************************************************************************)
(* The checks deleteInvoice and updateInvoiceNumber make on the header     *)
(* they fetched.                                                           *)
(***************************************************************************)
\* A mutation of headerCheck: the ownership check is left out.
headerCheckNoOwner(docs, id, userId) ==
    IF id \notin DOMAIN docs THEN "NotFound" ELSE "proceed"

\* A mutation of headerCheck: a missing header is taken for a deleted one and
\* the call goes on.
headerCheckNoExists(docs, id, userId) ==
    IF id \in DOMAIN docs /\ docs[id].userId # userId THEN "Unauthorized"
    ELSE "proceed"

\* if (!invoiceDoc.exists()) throw "Invoice not found";
\* if (invoiceDoc.data().userId !== userId) throw "Unauthorized ...".
headerCheck(docs, id, userId) ==
    IF id \notin DOMAIN docs THEN "NotFound"
    ELSE IF docs[id].userId # userId THEN "Unauthorized"
    ELSE "proceed"

(***************************************************************************)
(* deleteInvoice                                                           *)
(***************************************************************************)
\* Client c has called deleteInvoice(id, u).
deleteInvoiceCalled(c, u, id) ==
    [call EXCEPT ![c] =
       [IdleCall EXCEPT !.pc = "del_get", !.op = "delete", !.userId = u,
                        !.invoiceId = id]]

StartDelete(c, u, id) ==
    /\ Free(c)
    /\ call' = deleteInvoiceCalled(c, u, id)
    /\ UNCHANGED <<store, usedIds, inflight, history, app>>

\* getDoc(invoiceRef) and the two checks.
DeleteGet(c) ==
    LET k == call[c]
        check == headerCheck(headers, k.invoiceId, k.userId) IN
    /\ k.pc = "del_get"
    /\ call' = IF check = "proceed"
               THEN [call EXCEPT ![c] = [@ EXCEPT !.pc = "del_items"]]
               ELSE Finish(c, check, NoId)
    /\ UNCHANGED <<store, usedIds, inflight, history, app>>

\* getDocs(items) answers, and one deleteDoc per item of the snapshot is issued
\* at once; Promise.all of none resolves at once.
DeleteGetItems(c) ==
    LET k == call[c]
        snapshot == {i \in items : i.hdr = k.invoiceId} IN
    /\ k.pc = "del_items"
    /\ inflight' = inflight \cup
                     {[client |-> c, hdr |-> i.hdr, id |-> i.id] : i \in snapshot}
    /\ touched' = IF snapshot = {} THEN touched ELSE touched \cup {k.invoiceId}
    /\ call' = [call EXCEPT ![c] =
                  [@ EXCEPT !.pc = IF snapshot = {} THEN "del_header" ELSE "del_wait",
                            !.issued = @ \/ snapshot # {}]]
    /\ UNCHANGED <<store, usedIds, minted, created, deletedOk, initial, app>>

\* A mutation of PromiseAll: the first answer resolves it.
PromiseAllFirst(pending, client) == TRUE

\* await Promise.all(deletePromises) resolves when every deleteDoc of the call
\* has been answered: none of client's is among the pending requests.
PromiseAll(pending, client) == ~(\E q \in pending : q.client = client)

\* A mutation of deleteDocAccepted: deleting a missing document is refused.
deleteDocNeedsDocument(docs, r) == \E i \in docs : i.hdr = r.hdr /\ i.id = r.id

\* deleteDoc(ref) resolves whether or not the document exists.
deleteDocAccepted(docs, r) == TRUE

\* The store answers one item deleteDoc: the item is gone (deleting a missing
\* document succeeds too).  When it was the last one its call waits for,
\* Promise.all resolves.
ItemDeleteOk(r) ==
    LET rest == inflight \ {r} IN
    /\ r \in inflight
    /\ deleteDocAccepted(items, r)
    /\ items' = {i \in items : ~(i.hdr = r.hdr /\ i.id = r.id)}
    /\ inflight' = rest
    /\ call' = IF r.client # 0 /\ PromiseAll(rest, r.client)
               THEN [call EXCEPT ![r.client] = [@ EXCEPT !.pc = "del_header"]]
               ELSE call
    /\ UNCHANGED <<counter, headers, usedIds, history, app>>

\* The store refuses one item deleteDoc.  Promise.all rejects and its call
\* throws; the deleteDocs it has issued stay on their way.
ItemDeleteFail(r) ==
    LET rest == inflight \ {r} IN
    /\ r \in inflight
    /\ inflight' = IF r.client = 0 THEN rest
                   ELSE {IF q.client = r.client
                         THEN [q EXCEPT !.client = 0] ELSE q : q \in rest}
    /\ call' = IF r.client # 0 THEN Finish(r.client, "StoreError", NoId) ELSE call
    /\ UNCHANGED <<store, usedIds, history, app>>

\* deleteDoc(invoiceRef) answers.
DeleteHeaderOk(c) ==
    LET k == call[c] IN
    /\ k.pc = "del_header"
    /\ headers' = [h \in DOMAIN headers \ {k.invoiceId} |-> headers[h]]
    /\ touched' = touched \cup {k.invoiceId}
    /\ deletedOk' = deletedOk \cup {k.invoiceId}
    /\ call' = Issued(c, "ok")
    /\ UNCHANGED <<counter, items, usedIds, inflight, minted, created, initial, app>>

\* deleteDoc(invoiceRef) is refused.
DeleteHeaderFail(c) ==
    LET k == call[c] IN
    /\ k.pc = "del_header"
    /\ touched' = touched \cup {k.invoiceId}
    /\ call' = Issued(c, "StoreError")
    /\ UNCHANGED <<store, usedIds, inflight, minted, created, deletedOk, initial, app>>

deleteInvoice(c) ==
    \/ \E u \in Users, id \in usedIds : StartDelete(c, u, id)
    \/ DeleteGet(c)
    \/ DeleteGetItems(c)
    \/ DeleteHeaderOk(c)
    \/ DeleteHeaderFail(c)

(***************************************************************************)
(* updateInvoiceNumber                                                     *)
(***************************************************************************)
\* The documents of a query, in the store's order (by document id).
RECURSIVE SortedDocs(_)
SortedDocs(S) ==
    IF S = {} THEN <<>>
    ELSE LET m == CHOOSE i \in S : \A j \in S : i <= j
         IN  <<m>> \o SortedDocs(S \ {m})

\* query(invoices, where userId == .., where invoiceNumber == ..)
numberQuery(docs, userId, num) ==
    SortedDocs({h \in DOMAIN docs :
                  docs[h].userId = userId /\ docs[h].invoiceNumber = num})

\* A mutation of numberTaken: the header being renamed is not excluded.
numberTakenAny(snapshot, invoiceId) == snapshot # <<>>

\* !querySnapshot.empty && querySnapshot.docs[0].id !== invoiceId
numberTaken(snapshot, invoiceId) ==
    snapshot # <<>> /\ snapshot[1] # invoiceId

\* Client c has called updateInvoiceNumber(id, u, num).
updateInvoiceNumberCalled(c, u, id, num) ==
    [call EXCEPT ![c] =
       [IdleCall EXCEPT !.pc = "upd_get", !.op = "update", !.userId = u,
                        !.invoiceId = id, !.newInvoiceNumber = num]]

StartUpdate(c, u, id, num) ==
    /\ Free(c)
    /\ call' = updateInvoiceNumberCalled(c, u, id, num)
    /\ UNCHANGED <<store, usedIds, inflight, history, app>>

UpdateGet(c) ==
    LET k == call[c]
        check == headerCheck(headers, k.invoiceId, k.userId) IN
    /\ k.pc = "upd_get"
    /\ call' = IF check = "proceed"
               THEN [call EXCEPT ![c] = [@ EXCEPT !.pc = "upd_query"]]
               ELSE Finish(c, check, NoId)
    /\ UNCHANGED <<store, usedIds, inflight, history, app>>

UpdateQuery(c) ==
    LET k == call[c]
        querySnapshot == numberQuery(headers, k.userId, k.newInvoiceNumber) IN
    /\ k.pc = "upd_query"
    /\ call' = IF numberTaken(querySnapshot, k.invoiceId)
               THEN Finish(c, "DuplicateNumber", NoId)
               ELSE [call EXCEPT ![c] = [@ EXCEPT !.pc = "upd_write"]]
    /\ UNCHANGED <<store, usedIds, inflight, history, app>>

\* A mutation of updateDoc: the write is dropped.
updateDocDropped(data, number) == data

\* A mutation of updateDoc: the rename stamps the header with the time of the
\* change.
updateDocStampsTime(data, number) ==
    [data EXCEPT !.invoiceNumber = number, !.createdAt = TimestampFromMillis(Noon + 1)]

\* updateDoc(invoiceRef, {invoiceNumber: newInvoiceNumber}): the fields named
\* are written, the others are left as they are.
updateDoc(data, number) == [data EXCEPT !.invoiceNumber = number]

\* updateDoc(invoiceRef, {invoiceNumber}): it changes that one field of an
\* existing document and is refused (not-found) when the document is gone.
UpdateWrite(c) ==
    LET k == call[c] IN
    /\ k.pc = "upd_write"
    /\ IF k.invoiceId \in DOMAIN headers
       THEN /\ headers' = [headers EXCEPT
                             ![k.invoiceId] = updateDoc(@, k.newInvoiceNumber)]
            /\ call' = Issued(c, "ok")
       ELSE /\ headers' = headers
            /\ call' = Issued(c, "StoreError")
    /\ UNCHANGED <<counter, items, usedIds, inflight, history, app>>

\* updateInvoiceNumber of the users in users, with the new number drawn from
\* targets.
updateInvoiceNumberTo(c, users, targets) ==
    \/ \E u \in users, id \in usedIds, num \in targets : StartUpdate(c, u, id, num)
    \/ UpdateGet(c)
    \/ UpdateQuery(c)
    \/ UpdateWrite(c)

updateInvoiceNumber(c) == updateInvoiceNumberTo(c, Users, RenameTargets)

(***************************************************************************)
(* getInvoiceDetails.  The service is given no caller; userId is the user  *)
(* signed in on the client that calls it.                                  *)
(***************************************************************************)
\* Client c, where u is signed in, has called getInvoiceDetails(id).
getInvoiceDetailsCalled(c, u, id) ==
    [call EXCEPT ![c] =
       [IdleCall EXCEPT !.pc = "det_get", !.op = "details", !.userId = u,
                        !.invoiceId = id]]

StartDetails(c, u, id) ==
    /\ Free(c)
    /\ call' = getInvoiceDetailsCalled(c, u, id)
    /\ UNCHANGED <<store, usedIds, inflight, history, app>>

\* getDoc(doc(db, 'invoices', invoiceId)); "Invoice not found" when missing.
DetailsGet(c) ==
    LET k == call[c] IN
    /\ k.pc = "det_get"
    /\ call' = IF k.invoiceId \in DOMAIN headers
               THEN [call EXCEPT ![c] =
                       [@ EXCEPT !.pc = "det_items", !.ret = headers[k.invoiceId]]]
               ELSE Finish(c, "NotFound", NoId)
    /\ UNCHANGED <<store, usedIds, inflight, history, app>>

\* itemsSnapshot.docs.map(doc => ({id: doc.id, ...doc.data()})) on the
\* documents docs of one subcollection, ids being their ids in the order of
\* the snapshot.
itemsSnapshot(docs, ids) ==
    [n \in 1..Len(ids) |->
       LET i == CHOOSE j \in docs : j.id = ids[n] IN
       [id |-> i.id, quantity |-> i.quantity, price |-> i.price, total |-> i.total]]

\* getDocs(items), a query without orderBy: the store answers in the order of
\* the document ids.  The header read before is merged with the items read
\* now.
DetailsGetItems(c) ==
    LET k == call[c]
        docs == {j \in items : j.hdr = k.invoiceId} IN
    /\ k.pc = "det_items"
    /\ call' = Finish(c, "ok",
                      [id |-> k.invoiceId, header |-> k.ret,
                       items |-> itemsSnapshot(docs,
                                               SortedDocs({j.id : j \in docs}))])
    /\ UNCHANGED <<store, usedIds, inflight, history, app>>

getInvoiceDetails(c) ==
    \/ \E u \in Users, id \in usedIds : StartDetails(c, u, id)
    \/ DetailsGet(c)
    \/ DetailsGetItems(c)

(***************************************************************************)
(* getInvoices                                                             *)
(***************************************************************************)
\* A mutation of whereUserId: the filter is left out.
whereAnyUser(docs, userId) == DOMAIN docs

\* where('userId', '==', userId)
whereUserId(docs, userId) == {h \in DOMAIN docs : docs[h].userId = userId}

\* The store's order of two timestamps.
TimestampBefore(a, b) ==
    \/ a.seconds < b.seconds
    \/ a.seconds = b.seconds /\ a.nanoseconds < b.nanoseconds

\* orderBy('createdAt', 'desc'): later timestamps first; the store orders the
\* documents of one timestamp by document id, in the direction of the last
\* orderBy.
RECURSIVE orderByCreatedAtDesc(_, _)
orderByCreatedAtDesc(docs, S) ==
    IF S = {} THEN <<>>
    ELSE LET m == CHOOSE i \in S : \A j \in S \ {i} :
                      \/ TimestampBefore(docs[j].createdAt, docs[i].createdAt)
                      \/ docs[j].createdAt = docs[i].createdAt /\ j < i
         IN  <<m>> \o orderByCreatedAtDesc(docs, S \ {m})

\* querySnapshot.docs.map(doc => ({id: doc.id, ...doc.data()}))
invoicesOf(docs, ids) ==
    [n \in 1..Len(ids) |-> ("id" :> ids[n]) @@ docs[ids[n]]]

\* Timestamp.prototype.toMillis()
toMillis(ts) == ts.seconds * 1000 + ts.nanoseconds \div 1000000

\* fallbackInvoices.sort((a, b) => bTime - aTime): Array.prototype.sort is
\* stable, so of the largest times the first in the array comes first.
RECURSIVE sortByTimeDesc(_)
sortByTimeDesc(a) ==
    IF a = <<>> THEN <<>>
    ELSE LET m == CHOOSE i \in 1..Len(a) :
                      /\ \A j \in 1..Len(a) :
                           toMillis(a[j].createdAt) <= toMillis(a[i].createdAt)
                      /\ \A j \in 1..(i - 1) :
                           toMillis(a[j].createdAt) < toMillis(a[i].createdAt)
         IN  <<a[m]>> \o sortByTimeDesc(SubSeq(a, 1, m - 1) \o SubSeq(a, m + 1, Len(a)))

\* The errors a getDocs can throw, by their code: the index the query needs is
\* missing, the store cannot be reached.
QueryErrors == {"failed-precondition", "unavailable"}

\* A mutation of isIndexError: every error is taken for a missing index.
isIndexErrorAlways(error) == TRUE

\* error.code === 'failed-precondition' || error.message?.includes('index'):
\* of QueryErrors only the missing index has such a code or message.
isIndexError(error) == error = "failed-precondition"

\* A mutation of fallbackCatch: the error of the fallback is thrown.
fallbackCatchThrowsOwn(error, fallbackError) == fallbackError

\* catch (fallbackError) { console.error(..) } and then throw error.
fallbackCatch(error, fallbackError) == error

StartList(c, u) ==
    /\ Free(c)
    /\ call' = [call EXCEPT ![c] =
                  [IdleCall EXCEPT !.pc = "list_primary", !.op = "list", !.userId = u]]
    /\ UNCHANGED <<store, usedIds, inflight, history, app>>

\* getDocs(q) answers.
ListPrimaryOk(c) ==
    LET k == call[c] IN
    /\ k.pc = "list_primary"
    /\ call' = Finish(c, "ok",
                      invoicesOf(headers,
                                 orderByCreatedAtDesc(headers,
                                                      whereUserId(headers, k.userId))))
    /\ UNCHANGED <<store, usedIds, inflight, history, app>>

\* getDocs(q) throws: the fallback query is sent for a missing index, any
\* other error is thrown on.
ListPrimaryFail(c, error) ==
    /\ call[c].pc = "list_primary"
    /\ call' = IF isIndexError(error)
               THEN [call EXCEPT ![c] =
                       [@ EXCEPT !.pc = "list_fallback", !.error = error]]
               ELSE Finish(c, error, NoId)
    /\ UNCHANGED <<store, usedIds, inflight, history, app>>

\* getDocs(fallbackQuery) answers, in the order of the document ids, and the
\* client sorts.
ListFallbackOk(c) ==
    LET k == call[c] IN
    /\ k.pc = "list_fallback"
    /\ call' = Finish(c, "ok",
                      sortByTimeDesc(
                          invoicesOf(headers,
                                     SortedDocs(whereUserId(headers, k.userId)))))
    /\ UNCHANGED <<store, usedIds, inflight, history, app>>

\* getDocs(fallbackQuery) throws.
ListFallbackFail(c, fallbackError) ==
    /\ call[c].pc = "list_fallback"
    /\ call' = Finish(c, fallbackCatch(call[c].error, fallbackError), NoId)
    /\ UNCHANGED <<store, usedIds, inflight, history, app>>

getInvoices(c) ==
    \/ \E u \in Users : StartList(c, u)
    \/ ListPrimaryOk(c)
    \/ \E error \in QueryErrors : ListPrimaryFail(c, error)
    \/ ListFallbackOk(c)
    \/ \E fallbackError \in QueryErrors : ListFallbackFail(c, fallbackError)

(***************************************************************************)
(* checkInvoiceNumberExists                                                *)
(***************************************************************************)
\* A mutation of checkCatch: the error is thrown on.
checkCatchRethrow(error) == [result |-> error, ret |-> NoId]

\* catch (error) { console.error(..); return false; }
checkCatch(error) == [result |-> "ok", ret |-> FALSE]

\* excludeInvoiceId is NoId when the caller gives none.
StartCheck(c, u, number, excludeInvoiceId) ==
    /\ Free(c)
    /\ call' = [call EXCEPT ![c] =
                  [IdleCall EXCEPT !.pc = "chk_query", !.op = "check", !.userId = u,
                                   !.newInvoiceNumber = number,
                                   !.invoiceId = excludeInvoiceId]]
    /\ UNCHANGED <<store, usedIds, inflight, history, app>>

\* getDocs(q) answers.
CheckQueryOk(c) ==
    LET k == call[c]
        querySnapshot == numberQuery(headers, k.userId, k.newInvoiceNumber) IN
    /\ k.pc = "chk_query"
    /\ call' = Finish(c, "ok",
                      IF querySnapshot = <<>> THEN FALSE
                      ELSE IF k.invoiceId # NoId THEN querySnapshot[1] # k.invoiceId
                      ELSE TRUE)
    /\ UNCHANGED <<store, usedIds, inflight, history, app>>

\* getDocs(q) throws; the finished call keeps the error it logged.
CheckQueryFail(c, error) ==
    /\ call[c].pc = "chk_query"
    /\ call' = [Finish(c, checkCatch(error).result, checkCatch(error).ret)
                  EXCEPT ![c].error = error]
    /\ UNCHANGED <<store, usedIds, inflight, history, app>>

checkInvoiceNumberExists(c) ==
    \/ \E u \in Users, number \in RenameTargets, excludeInvoiceId \in usedIds \cup {NoId} :
         StartCheck(c, u, number, excludeInvoiceId)
    \/ CheckQueryOk(c)
    \/ \E error \in QueryErrors : CheckQueryFail(c, error)

(***************************************************************************)
(* The App (App in src/unnamed/part_000), run by client AppClient.  The    *)
(* other clients are other devices calling the service.  The App makes one *)
(* call of the service after the other (app.pending is the handler that    *)
(* awaits call[AppClient], with the uid of the user it was started for);   *)
(* its fetchInvoices calls run beside them and beside each other.          *)
(***************************************************************************)
AppClient == 1

NoHandler == [handler |-> "none", uid |-> ""]

Guest(a) == a.user = GuestUid
SignedIn(a) == a.user # "" /\ a.user # GuestUid

\* What the App renders inside the Layout: selectedInvoice ? preview :
\* activeTab === 'create' ? form : list; the list is a spinner while loading.
ShowsPreview(a) == a.user # "" /\ a.selectedInvoice # NoId
ShowsForm(a) == a.user # "" /\ a.selectedInvoice = NoId /\ a.activeTab = "create"
ShowsList(a) ==
    /\ a.user # "" /\ a.selectedInvoice = NoId /\ a.activeTab = "history"
    /\ ~a.invoicesLoading

\* The invoices prop of the InvoiceList.
listed(a) == IF Guest(a) THEN a.guestInvoices ELSE a.invoices

\* An InvoiceForm that is not rendered has no state: the next one starts anew.
formUnmounted(a) ==
    [a EXCEPT !.customerName = "", !.descriptions = <<"">>, !.error = "",
              !.isSubmitting = FALSE]

\* An InvoicePrintTemplate that is not rendered has no state, and the cleanup
\* of its effect has cleared the timeout.
previewUnmounted(a) ==
    [a EXCEPT !.isDownloading = FALSE, !.hasAutoDownloaded = FALSE,
              !.timer = FALSE, !.timerSees = FALSE,
              !.generating = 0, !.autoStarted = 0]

\* The effect of the InvoicePrintTemplate, run by the render a: with autoPrint
\* and the ref not set, the ref is set and the timeout started, to call the
\* handleDownloadPDF of this render.
autoPrintEffect(a) ==
    IF a.autoPrintMode /\ ~a.hasAutoDownloaded
    THEN [a EXCEPT !.hasAutoDownloaded = TRUE, !.timer = TRUE,
                   !.timerSees = a.isDownloading]
    ELSE a

\* The App renders a after old: components that are no longer rendered lose
\* their state; a preview that appears runs its effect; a preview that stays
\* runs the cleanup and the effect again when autoPrint has changed.
Render(old, a) ==
    LET f == IF ShowsForm(a) THEN a ELSE formUnmounted(a) IN
    IF ~ShowsPreview(f) THEN previewUnmounted(f)
    ELSE IF ~ShowsPreview(old) THEN autoPrintEffect(previewUnmounted(f))
    ELSE IF f.autoPrintMode # old.autoPrintMode
         THEN autoPrintEffect([f EXCEPT !.timer = FALSE])
         ELSE f

\* The steps of the App leave the store and the running calls alone.
AppOnly == UNCHANGED <<store, usedIds, call, inflight, history>>

\* The App is awaiting no call of the service and can make one.
MayCall == app.pending = NoHandler /\ Free(AppClient)

\* fetchInvoices(uid) up to its await: nothing for the guest, else
\* setInvoicesLoading(true) and getInvoices(uid) is sent.
fetchInvoices(a, uid) ==
    IF uid = GuestUid THEN a
    ELSE [a EXCEPT !.invoicesLoading = TRUE,
                   !.issued = @ + 1,
                   !.fetches = @ \cup {[n |-> a.issued + 1, uid |-> uid,
                                        stage |-> "sent", data |-> <<>>]},
                   !.results = Append(@, [stage |-> "sent", data |-> <<>>])]

\* The bound on the fetchInvoices calls of a run: a handler that fetches for a
\* signed-in user is not started beyond it.
MayFetch(a) == a.issued < MaxFetches

\* handleLogin and the onAuthStateChanged callback it leads to, for the
\* account u: setUser, fetchInvoices, the history tab.
handleLogin(u) ==
    /\ app.user = ""
    /\ MayFetch(app)
    /\ app' = Render(app, fetchInvoices([app EXCEPT !.user = u,
                                                    !.activeTab = "history"], u))
    /\ AppOnly

handleGuestLogin ==
    /\ app.user = ""
    /\ app' = Render(app, [app EXCEPT !.user = GuestUid, !.activeTab = "create"])
    /\ AppOnly

\* handleLogout; for an account, firebaseLogout and the onAuthStateChanged
\* callback with null.  invoices is left as it is.
handleLogout ==
    /\ app.user # ""
    /\ app' = Render(app,
                     IF Guest(app)
                     THEN [app EXCEPT !.user = "", !.guestInvoices = <<>>,
                                      !.selectedInvoice = NoId]
                     ELSE [app EXCEPT !.user = "", !.selectedInvoice = NoId])
    /\ AppOnly

handleTabChange(tab) ==
    /\ app.user # ""
    /\ (tab = "history" /\ SignedIn(app)) => MayFetch(app)
    /\ app' = LET a == [app EXCEPT !.selectedInvoice = NoId,
                                   !.autoPrintMode = FALSE,
                                   !.activeTab = tab] IN
              Render(app, IF tab = "history" /\ SignedIn(app)
                          THEN fetchInvoices(a, app.user) ELSE a)
    /\ AppOnly

handleCloseInvoice ==
    /\ ShowsPreview(app)
    /\ SignedIn(app) => MayFetch(app)
    /\ app' = LET a == [app EXCEPT !.selectedInvoice = NoId,
                                   !.autoPrintMode = FALSE] IN
              Render(app, IF SignedIn(app) THEN fetchInvoices(a, app.user) ELSE a)
    /\ AppOnly

\* getInvoices answers the fetch f, with the user's headers (as its primary
\* query returns them) or with an error.
FetchAnswered(f, ok) ==
    /\ f \in app.fetches /\ f.stage = "sent"
    /\ LET data == IF ok
                   THEN invoicesOf(headers,
                                   orderByCreatedAtDesc(headers,
                                                        whereUserId(headers, f.uid)))
                   ELSE <<>>
           g == [f EXCEPT !.stage = IF ok THEN "ok" ELSE "failed", !.data = data]
       IN  app' = [app EXCEPT !.fetches = (@ \ {f}) \cup {g},
                              !.results[f.n] = [stage |-> g.stage, data |-> data]]
    /\ AppOnly

\* The await of fetchInvoices resumes: setInvoices(data), or the catch; and
\* setInvoicesLoading(false).
FetchReturns(f) ==
    /\ f \in app.fetches /\ f.stage # "sent"
    /\ app' = Render(app, [app EXCEPT !.fetches = @ \ {f},
                                      !.invoices = IF f.stage = "ok"
                                                   THEN f.data ELSE @,
                                      !.invoicesLoading = FALSE])
    /\ AppOnly

(***************************************************************************)
(* The InvoiceForm (src/unnamed/part_001).                                 *)
(***************************************************************************)
\* What is typed into the customer name and into a description.
Names == {"", " ", "A"}
Descriptions == {"", "x"}

setCustomerName(v) ==
    /\ ShowsForm(app)
    /\ app' = [app EXCEPT !.customerName = v]
    /\ AppOnly

addItem ==
    /\ ShowsForm(app)
    /\ Len(app.descriptions) < MaxLines
    /\ app' = [app EXCEPT !.descriptions = Append(@, "")]
    /\ AppOnly

removeItem(index) ==
    /\ ShowsForm(app)
    /\ index \in 1..Len(app.descriptions)
    /\ app' = IF Len(app.descriptions) > 1
              THEN [app EXCEPT !.descriptions =
                        SubSeq(@, 1, index - 1) \o SubSeq(@, index + 1, Len(@))]
              ELSE app
    /\ AppOnly

updateItem(index, v) ==
    /\ ShowsForm(app)
    /\ index \in 1..Len(app.descriptions)
    /\ app' = [app EXCEPT !.descriptions[index] = v]
    /\ AppOnly

\* A mutation of formRejected: only the customer name is looked at.
formRejectedNameOnly(customerName, descriptions) == customerName = ""

\* !customerName || items.some(i => !i.description)
formRejected(customerName, descriptions) ==
    \/ customerName = ""
    \/ \E i \in 1..Len(descriptions) : descriptions[i] = ""

FormError == "Please fill in customer name and all item descriptions."

\* formattedItems: the items of the form, their quantity and price untouched.
formattedItems(descriptions) == [i \in 1..Len(descriptions) |-> FormItem]

\* handleInvoiceSuccess for the guest: the new invoice gets the number after
\* the count of the guest invoices, is put in front of them and is selected.
\* Its id is guest_ and the clock's milliseconds, here the count of the guest
\* invoices made.
guestInvoiceAdded(a, y) ==
    LET id == a.guestMinted + 1
        newInvoice == [id |-> id,
                       invoiceNumber |-> invoiceNumber(y, Len(a.guestInvoices) + 1)]
    IN  [a EXCEPT !.autoPrintMode = FALSE,
                  !.guestInvoices = <<newInvoice>> \o @,
                  !.selectedInvoice = id,
                  !.guestMinted = id]

\* handleSubmit, up to its await when it calls createInvoice.
handleSubmit ==
    /\ ShowsForm(app) /\ ~app.isSubmitting
    /\ IF formRejected(app.customerName, app.descriptions)
       THEN /\ app' = [app EXCEPT !.error = FormError]
            /\ AppOnly
       ELSE IF Guest(app)
       THEN /\ app.guestMinted < MaxGuest
            /\ \E y \in Years :
                 app' = Render(app, guestInvoiceAdded([app EXCEPT !.error = ""], y))
            /\ AppOnly
       ELSE /\ MayCall
            /\ Cardinality(usedIds) < MaxIds
            /\ app' = [app EXCEPT !.error = "", !.isSubmitting = TRUE,
                                  !.pending = [handler |-> "submit",
                                               uid |-> app.user]]
            /\ call' = createInvoiceCalled(
                           AppClient, app.user,
                           [items |-> formattedItems(app.descriptions),
                            discountType |-> "percentage", discountValue |-> 0])
            /\ UNCHANGED <<store, usedIds, inflight, history>>

\* createInvoice returns or throws to handleSubmit.  With an id, onSuccess is
\* called, which is handleInvoiceSuccess: setAutoPrintMode(false), and
\* getInvoiceDetails is called.  Else setError.  And setIsSubmitting(false).
SubmitReturns ==
    LET k == call[AppClient] IN
    /\ app.pending.handler = "submit"
    /\ k.pc = "done"
    /\ IF k.result = "ok"
       THEN /\ app' = Render(app, [app EXCEPT !.autoPrintMode = FALSE,
                                              !.isSubmitting = FALSE,
                                              !.pending.handler = "success"])
            /\ call' = getInvoiceDetailsCalled(AppClient, app.pending.uid, k.ret)
       ELSE /\ app' = Render(app, [app EXCEPT !.error = k.result,
                                              !.isSubmitting = FALSE,
                                              !.pending = NoHandler])
            /\ call' = call
    /\ UNCHANGED <<store, usedIds, inflight, history>>

\* getInvoiceDetails returns to handleInvoiceSuccess: the invoice is selected
\* and the list fetched again; or it throws, and nothing is done.
SuccessReturns ==
    LET k == call[AppClient] IN
    /\ app.pending.handler = "success"
    /\ k.pc = "done"
    /\ k.result = "ok" => MayFetch(app)
    /\ app' = LET a == [app EXCEPT !.pending = NoHandler] IN
              IF k.result = "ok"
              THEN Render(app, fetchInvoices([a EXCEPT !.selectedInvoice = k.ret.id],
                                             app.pending.uid))
              ELSE a
    /\ AppOnly

(***************************************************************************)
(* The handlers of the InvoiceList (src/unnamed/part_002) in the App.      *)
(***************************************************************************)
\* handleViewInvoice(invoice, shouldPrint), from a row of the list or its
\* download button; for an account, up to its await.
handleViewInvoice(n, shouldPrint) ==
    /\ ShowsList(app)
    /\ n \in 1..Len(listed(app))
    /\ IF Guest(app)
       THEN /\ app' = Render(app, [app EXCEPT !.autoPrintMode = shouldPrint,
                                              !.selectedInvoice = listed(app)[n].id])
            /\ AppOnly
       ELSE /\ MayCall
            /\ app' = Render(app, [app EXCEPT !.autoPrintMode = shouldPrint,
                                              !.invoicesLoading = TRUE,
                                              !.pending = [handler |-> "view",
                                                           uid |-> app.user]])
            /\ call' = getInvoiceDetailsCalled(AppClient, app.user,
                                               listed(app)[n].id)
            /\ UNCHANGED <<store, usedIds, inflight, history>>

\* getInvoiceDetails returns or throws to handleViewInvoice.
ViewReturns ==
    LET k == call[AppClient] IN
    /\ app.pending.handler = "view"
    /\ k.pc = "done"
    /\ app' = Render(app, [app EXCEPT !.selectedInvoice =
                                          IF k.result = "ok" THEN k.ret.id ELSE @,
                                      !.invoicesLoading = FALSE,
                                      !.pending = NoHandler])
    /\ AppOnly

\* handleDeleteInvoice(invoice), confirmed; for an account, up to its await.
handleDeleteInvoice(n) ==
    /\ ShowsList(app)
    /\ n \in 1..Len(listed(app))
    /\ IF Guest(app)
       THEN /\ app' = [app EXCEPT !.guestInvoices =
                           SelectSeq(@, LAMBDA inv : inv.id # listed(app)[n].id)]
            /\ AppOnly
       ELSE /\ MayCall
            /\ app' = [app EXCEPT !.pending = [handler |-> "delete",
                                               uid |-> app.user]]
            /\ call' = deleteInvoiceCalled(AppClient, app.user, listed(app)[n].id)
            /\ UNCHANGED <<store, usedIds, inflight, history>>

\* The numbers a guest renames to.
GuestTargets == {invoiceNumber(y, n) : y \in Years, n \in 1..MaxGuest}

\* guestInvoices.find(inv => inv.invoiceNumber === newNumber &&
\* inv.id !== invoice.id)
existingInvoice(guestInvoices, id, newNumber) ==
    \E i \in 1..Len(guestInvoices) :
        /\ guestInvoices[i].invoiceNumber = newNumber
        /\ guestInvoices[i].id # id

\* handleEditInvoiceNumber(invoice, newNumber), which the list calls with a
\* number other than the invoice's; for an account, up to its await.
handleEditInvoiceNumber(n, newNumber) ==
    /\ ShowsList(app)
    /\ n \in 1..Len(listed(app))
    /\ newNumber # listed(app)[n].invoiceNumber
    /\ IF Guest(app)
       THEN /\ app' = IF existingInvoice(app.guestInvoices, listed(app)[n].id,
                                         newNumber)
                      THEN app
                      ELSE [app EXCEPT !.guestInvoices[n].invoiceNumber = newNumber]
            /\ AppOnly
       ELSE /\ MayCall
            /\ app' = [app EXCEPT !.pending = [handler |-> "edit",
                                               uid |-> app.user]]
            /\ call' = updateInvoiceNumberCalled(AppClient, app.user,
                                                 listed(app)[n].id, newNumber)
            /\ UNCHANGED <<store, usedIds, inflight, history>>

\* deleteInvoice or updateInvoiceNumber returns to its handler, and the list
\* is fetched again; or it throws, and the handler alerts.
ChangeReturns ==
    LET k == call[AppClient] IN
    /\ app.pending.handler \in {"delete", "edit"}
    /\ k.pc = "done"
    /\ k.result = "ok" => MayFetch(app)
    /\ app' = LET a == [app EXCEPT !.pending = NoHandler] IN
              IF k.result = "ok"
              THEN Render(app, fetchInvoices(a, app.pending.uid))
              ELSE a
    /\ AppOnly

(***************************************************************************)
(* The InvoicePrintTemplate (src/components/InvoicePrintTemplate.tsx).     *)
(***************************************************************************)
\* The start of handleDownloadPDF in a render whose isDownloading is
\* isDownloading: nothing when it is set, else setIsDownloading(true) and the
\* generation begins.
downloadStarted(a, isDownloading) ==
    IF isDownloading THEN a
    ELSE [a EXCEPT !.isDownloading = TRUE, !.generating = @ + 1]

\* A click on Download PDF, which is disabled while isDownloading.
ClickDownload ==
    /\ ShowsPreview(app)
    /\ ~app.isDownloading
    /\ app' = downloadStarted(app, app.isDownloading)
    /\ AppOnly

\* The timeout of the effect fires: the handleDownloadPDF of the render that
\* set it runs.
TimerFires ==
    /\ app.timer
    /\ app' = LET a == downloadStarted([app EXCEPT !.timer = FALSE], app.timerSees)
              IN  [a EXCEPT !.autoStarted = @ + (a.generating - app.generating)]
    /\ AppOnly

\* A generation ends or fails: setIsDownloading(false).
GenerationEnds ==
    /\ app.generating > 0
    /\ app' = [app EXCEPT !.generating = @ - 1, !.isDownloading = FALSE]
    /\ AppOnly

Next ==
    \/ \E c \in Clients :
         \/ createInvoice(c)
         \/ deleteInvoice(c)
         \/ updateInvoiceNumber(c)
    \/ \E r \in inflight : ItemDeleteOk(r) \/ ItemDeleteFail(r)

\* The write path: createInvoice, deleteInvoice and updateInvoiceNumber calls
\* of all clients, interleaved at their awaits.
Spec == Init /\ [][Next]_vars

NextCreate == \E c \in Clients : createInvoiceFrom(c, FormInputs, Years, {Noon})

\* Concurrent createInvoice calls alone; the number a call mints does not
\* depend on its items.
SpecCreate == Init /\ [][NextCreate]_vars

NextRead ==
    \/ Next
    \/ \E c \in Clients : getInvoiceDetails(c)

\* The write path and getInvoiceDetails.
SpecRead == Init /\ [][NextRead]_vars

\* The readings of Date.now() on the clients, in milliseconds: the clocks of
\* two clients need not agree, and two calls can read the same millisecond.
ListTimes == {999, 1000}

NextList ==
    \/ \E c \in Clients :
         \/ createInvoiceFrom(c, PlainInputs, Years, ListTimes)
         \/ deleteInvoice(c)
         \/ getInvoices(c)
    \/ \E r \in inflight : ItemDeleteOk(r) \/ ItemDeleteFail(r)

\* createInvoice calls at several clock readings, deleteInvoice and
\* getInvoices.
SpecList == Init /\ [][NextList]_vars

NextCheck ==
    \E c \in Clients :
        \/ createInvoice(c)
        \/ updateInvoiceNumber(c)
        \/ checkInvoiceNumberExists(c)

\* createInvoice, updateInvoiceNumber and checkInvoiceNumberExists.
SpecCheck == Init /\ [][NextCheck]_vars

\* The counter document after earlier createInvoice calls (their headers
\* deleted since): absent, or just below a number of one more digit.
CounterStarts == {NoDoc, 8, 98, 998}

\* The years the clients' clocks show.
NumberYears == {2025, 2009, 2100}

InitNumber ==
    /\ counter \in CounterStarts
    /\ headers = EmptyMap
    /\ items = {}
    /\ usedIds = {}
    /\ call = [c \in Clients |-> IdleCall]
    /\ inflight = {}
    /\ app = IdleApp
    /\ minted = <<>>
    /\ created = EmptyMap
    /\ touched = {}
    /\ deletedOk = {}
    /\ initial = counter

NextNumber ==
    \E c \in Clients : createInvoiceFrom(c, FormInputs, NumberYears, {Noon})

\* Concurrent createInvoice calls in several years, with the counter at the
\* start where it rolls over to one more digit.
SpecNumber == InitNumber /\ [][NextNumber]_vars

\* While no header has been committed and no other createInvoice is running,
\* a caller sends any of AmountInputs; the other calls send PlainInputs.
StartCreateAmounts(c) ==
    /\ usedIds = {}
    /\ \A d \in Clients \ {c} : call[d].pc \notin {"cr_get", "cr_commit"}
    /\ \E u \in Users, in \in AmountInputs : StartCreate(c, u, in)

NextCalc ==
    \E c \in Clients :
        \/ StartCreateAmounts(c)
        \/ createInvoice(c)

\* createInvoice with every kind of argument.
SpecCalc == Init /\ [][NextCalc]_vars

NextAmounts ==
    \/ NextCalc
    \/ \E c \in Clients : getInvoiceDetails(c)

\* createInvoice with every kind of argument, and getInvoiceDetails.
SpecAmounts == Init /\ [][NextAmounts]_vars

\* The state one createInvoice leaves when it is the first to commit: the call
\* of user u with the arguments in, its transaction having read the year y and
\* the time t and generated the item ids itemRef.
InitDelete ==
    \E u \in Users, in \in LinesInputs, y \in Years,
       itemRef \in itemAutoIds(MaxLines) :
        LET k == [IdleCall EXCEPT !.userId = u, !.items = in.items,
                                  !.discountType = in.discountType,
                                  !.discountValue = in.discountValue,
                                  !.newInvoiceNumber =
                                      invoiceNumber(y, nextNumber(NoDoc)),
                                  !.year = y, !.createdAt = Noon]
            newInvoiceRef == 1
            calc == calculatedItems(in.items) IN
        /\ counter = nextNumber(NoDoc)
        /\ headers = (newInvoiceRef :> invoiceHeader(k, calc))
        /\ items = transactionItems(newInvoiceRef, calc, itemRef)
        /\ usedIds = {newInvoiceRef}
        /\ call = [c \in Clients |-> IdleCall]
        /\ inflight = {}
        /\ app = IdleApp
        /\ minted = <<k.newInvoiceNumber>>
        /\ created = (newInvoiceRef :> [userId |-> u,
                                        invoiceNumber |-> k.newInvoiceNumber,
                                        nItems |-> Len(in.items),
                                        itemIds |-> itemRef,
                                        year |-> y,
                                        createdAt |-> TimestampFromMillis(Noon),
                                        items |-> in.items,
                                        discountType |-> in.discountType,
                                        discountValue |-> in.discountValue])
        /\ touched = {}
        /\ deletedOk = {}
        /\ initial = NoDoc

NextDelete ==
    \/ \E c \in Clients : deleteInvoice(c)
    \/ \E r \in inflight : ItemDeleteOk(r) \/ ItemDeleteFail(r)

\* deleteInvoice calls on an invoice of several items, from the state its
\* createInvoice left.
SpecDelete == InitDelete /\ [][NextDelete]_vars

\* A number the allocator has not minted for any header.
FreeNumber == invoiceNumber(2025, MaxIds + 1)

NextRename ==
    \E c \in Clients :
        \/ createInvoiceFrom(c, FormInputs, Years, {Noon})
        \/ updateInvoiceNumberTo(c, Users, RenameTargets \cup {FreeNumber})

\* createInvoice and updateInvoiceNumber, to the minted numbers and to a
\* number no header was minted with.
SpecRename == Init /\ [][NextRename]_vars

\* The client runs the body of its transaction and the store answers its
\* commit, with one of the three answers.
FairCreate ==
    \A c \in Clients :
        WF_vars(TransactionBody(c, Years, {Noon}) \/ CommitOk(c)
                  \/ CommitRejected(c) \/ CommitConflict(c))

\* SpecCreate where every call is run to its end.
SpecCreateFair == Init /\ [][NextCreate]_vars /\ FairCreate

\* The store answers every request it is sent, and a request it can accept is
\* not refused forever: the steps of a deleteInvoice other than a refusal are
\* taken when they stay possible.
FairDelete ==
    /\ \A c \in Clients :
         WF_vars(DeleteGet(c) \/ DeleteGetItems(c) \/ DeleteHeaderOk(c))
    /\ WF_vars(\E r \in inflight : ItemDeleteOk(r))

\* SpecDelete with a store that does not fail forever.
SpecRetry == InitDelete /\ [][NextDelete]_vars /\ FairDelete

\* The InvoiceForm of the App, for a guest and for an account: the fields are
\* typed, the form is submitted, the createInvoice it calls runs, and the new
\* invoice is shown.  The App is the only client, so its transaction meets no
\* conflict.
NextForm ==
    \/ handleGuestLogin
    \/ \E u \in Users : handleLogin(u)
    \/ handleTabChange("create")
    \/ \E v \in Names : setCustomerName(v)
    \/ addItem
    \/ \E index \in 1..MaxLines : removeItem(index)
    \/ \E index \in 1..MaxLines, v \in Descriptions : updateItem(index, v)
    \/ handleSubmit
    \/ TransactionBody(AppClient, Years, {Noon})
    \/ CommitOk(AppClient)
    \/ CommitRejected(AppClient)
    \/ SubmitReturns
    \/ DetailsGet(AppClient)
    \/ DetailsGetItems(AppClient)
    \/ SuccessReturns
    \/ \E f \in app.fetches, ok \in BOOLEAN : FetchAnswered(f, ok)
    \/ \E f \in app.fetches : FetchReturns(f)

SpecForm == Init /\ [][NextForm]_vars

\* Another device, where invoices are created while the App runs.
OtherClient == 2

\* The sessions of accounts in the App: they sign in and out and switch tabs;
\* the invoices of the list are viewed, downloaded, deleted and renamed; the
\* fetches of the list are answered and come back in any order; and invoices
\* are created on another device meanwhile.
NextApp ==
    \/ \E u \in Users : handleLogin(u)
    \/ handleLogout
    \/ \E tab \in {"create", "history"} : handleTabChange(tab)
    \/ \E f \in app.fetches, ok \in BOOLEAN : FetchAnswered(f, ok)
    \/ \E f \in app.fetches : FetchReturns(f)
    \/ \E n \in 1..MaxIds, shouldPrint \in BOOLEAN : handleViewInvoice(n, shouldPrint)
    \/ DetailsGet(AppClient)
    \/ DetailsGetItems(AppClient)
    \/ ViewReturns
    \/ handleCloseInvoice
    \/ ClickDownload
    \/ TimerFires
    \/ GenerationEnds
    \/ \E n \in 1..MaxIds : handleDeleteInvoice(n)
    \/ DeleteGet(AppClient)
    \/ DeleteGetItems(AppClient)
    \/ DeleteHeaderOk(AppClient)
    \/ DeleteHeaderFail(AppClient)
    \/ \E r \in inflight : ItemDeleteOk(r) \/ ItemDeleteFail(r)
    \/ \E n \in 1..MaxIds, num \in RenameTargets : handleEditInvoiceNumber(n, num)
    \/ UpdateGet(AppClient)
    \/ UpdateQuery(AppClient)
    \/ UpdateWrite(AppClient)
    \/ ChangeReturns
    \/ \E u \in Users, in \in FormInputs : StartCreate(OtherClient, u, in)
    \/ TransactionBody(OtherClient, Years, {Noon})
    \/ CommitOk(OtherClient)
    \/ CommitRejected(OtherClient)

SpecApp == Init /\ [][NextApp]_vars

\* The session of a guest: invoices are made in the form, viewed and
\* downloaded, deleted and renamed in the list.
NextGuest ==
    \/ handleGuestLogin
    \/ handleLogout
    \/ \E tab \in {"create", "history"} : handleTabChange(tab)
    \/ \E v \in Names : setCustomerName(v)
    \/ addItem
    \/ \E index \in 1..MaxLines : removeItem(index)
    \/ \E index \in 1..MaxLines, v \in Descriptions : updateItem(index, v)
    \/ handleSubmit
    \/ \E n \in 1..MaxGuest, shouldPrint \in BOOLEAN : handleViewInvoice(n, shouldPrint)
    \/ handleCloseInvoice
    \/ ClickDownload
    \/ TimerFires
    \/ GenerationEnds
    \/ \E n \in 1..MaxGuest : handleDeleteInvoice(n)
    \/ \E n \in 1..MaxGuest, num \in GuestTargets : handleEditInvoiceNumber(n, num)

SpecGuest == Init /\ [][NextGuest]_vars

(***************************************************************************)
(* Properties.                                                             *)
(***************************************************************************)
\* lastInvoiceNumber at the start, an absent counter document counting as 0.
InitialLast == IF initial = NoDoc THEN 0 ELSE initial

\* The step is one of client c's own call.
Steps(c) == call'[c] # call[c]

\* Client c's call returns or throws in this step.
Ends(c) == call[c].pc \notin {"idle", "done"} /\ call'[c].pc = "done"

Errors == {"NotFound", "Unauthorized", "DuplicateNumber", "Aborted", "StoreError"}

\* C1: the invoice numbers minted by the createInvoice calls that committed,
\* whichever clients and owners made them and however their transactions
\* interleaved, are pairwise distinct, and their numeric suffixes are exactly
\* L+1 .. L+N, L being lastInvoiceNumber at the start and N the number of commits.
C1_DistinctContiguous ==
    /\ \A i, j \in 1..Len(minted) : i # j => minted[i] # minted[j]
    /\ {Suffix(minted[i]) : i \in 1..Len(minted)}
         = (InitialLast + 1)..(InitialLast + Len(minted))

\* Every id has a committed header, and one of the creators had to run its
\* transaction body again because the other committed first.
C1_Witness ==
    /\ Len(minted) = MaxIds
    /\ \E c \in Clients :
         /\ call[c].pc = "done" /\ call[c].op = "create"
         /\ call[c].result = "ok" /\ call[c].attempts >= 2

\* C2: a createInvoice call that fails (its commit is refused, or its
\* attempts are used up on conflicts) leaves counter, headers and items as they
\* were and throws the store's error to its caller; an attempt that is
\* discarded and run again writes nothing either, so the counter always counts
\* exactly the commits.
C2_FailedCreateWritesNothing ==
    /\ [](/\ counter = (IF minted = <<>> THEN initial
                        ELSE InitialLast + Len(minted))
          /\ DOMAIN headers \subseteq DOMAIN created
          /\ \A i \in items : i.hdr \in DOMAIN created)
    /\ [][\A c \in Clients :
            (call[c].pc = "cr_commit" /\ Steps(c) /\ minted' = minted)
            => /\ store' = store
               /\ \/ call'[c].pc = "cr_get"
                  \/ /\ call'[c].pc = "done"
                     /\ call'[c].result \in {"Aborted", "StoreError"}]_vars

\* A createInvoice has thrown after using up its attempts on conflicts with
\* the commits of another client.
C2_Witness ==
    \E c \in Clients :
        /\ call[c].pc = "done" /\ call[c].op = "create"
        /\ call[c].result = "Aborted" /\ call[c].attempts = MaxAttempts
        /\ Len(minted) >= MaxAttempts

\* C3: in commit order the numeric suffixes of the minted numbers increase
\* strictly, whoever the owners are: one counter serves all users.
C3_GloballyIncreasing ==
    \A i, j \in 1..Len(minted) :
        i < j => Suffix(minted[i]) < Suffix(minted[j])

\* Two commits for two different owners.
C3_Witness ==
    /\ Len(minted) >= 2
    /\ \E g, h \in DOMAIN created :
         /\ created[g].userId # created[h].userId
         /\ Suffix(created[g].invoiceNumber) < Suffix(created[h].invoiceNumber)

\* C4: as long as no deleteInvoice has issued a delete for a committed header,
\* the header is there with every item it was created with, and the counter is
\* at least its number; and no item is there whose header never was.
C4_HeaderItemsCounterTogether ==
    /\ \A h \in DOMAIN created \ touched :
         /\ h \in DOMAIN headers
         /\ \A n \in 1..created[h].nItems :
              \E i \in items : i.hdr = h /\ i.id = n
         /\ counter # NoDoc
         /\ counter >= Suffix(created[h].invoiceNumber)
    /\ \A i \in items : i.hdr \in DOMAIN headers \/ i.hdr \in touched
    /\ \A h \in DOMAIN headers :
         h \in DOMAIN created /\ (h \notin touched =>
             {i.id : i \in {j \in items : j.hdr = h}}
               = 1..created[h].nItems)

\* A committed header with an item that no delete has touched, while another
\* createInvoice waits for its commit and another header is being deleted.
C4_Witness ==
    /\ \E h \in DOMAIN created \ touched : created[h].nItems >= 1
    /\ touched # {}
    /\ \E c \in Clients : call[c].pc = "cr_commit"

\* C5: no two headers of one user have the same invoiceNumber.
C5_UniquePerUser ==
    \A g, h \in DOMAIN headers :
        (g # h /\ headers[g].userId = headers[h].userId)
        => headers[g].invoiceNumber # headers[h].invoiceNumber

\* Another header of the caller has the number asked for.
OtherHasNumber(docs, k) ==
    \E h \in DOMAIN docs :
        /\ h # k.invoiceId
        /\ docs[h].userId = k.userId
        /\ docs[h].invoiceNumber = k.newInvoiceNumber

\* C6: when the uniqueness query of updateInvoiceNumber is answered and
\* another header of the caller has the number asked for, the call does not go
\* on to its updateDoc.
C6_RenameRejectsTakenNumber ==
    [][\A c \in Clients :
         (call[c].pc = "upd_query" /\ Steps(c) /\ OtherHasNumber(headers, call[c]))
         => call'[c].pc # "upd_write"]_vars

\* C7: updateInvoiceNumber does not throw NotFound or Unauthorized when the
\* header it fetches exists and is the caller's, does not throw DuplicateNumber
\* when no other header of the caller has the number, and its updateDoc on an
\* existing header succeeds and leaves the new number in the header, where the
\* next read finds it.
C7_RenameSucceeds ==
    [][\A c \in Clients :
         LET k == call[c] IN
         /\ (/\ k.pc = "upd_get" /\ Steps(c)
             /\ k.invoiceId \in DOMAIN headers
             /\ headers[k.invoiceId].userId = k.userId)
            => call'[c].pc = "upd_query"
         /\ (k.pc = "upd_query" /\ Steps(c) /\ ~OtherHasNumber(headers, k))
            => call'[c].pc = "upd_write"
         /\ (k.pc = "upd_write" /\ Steps(c) /\ k.invoiceId \in DOMAIN headers)
            => /\ call'[c].pc = "done" /\ call'[c].result = "ok"
               /\ k.invoiceId \in DOMAIN headers'
               /\ headers'[k.invoiceId].invoiceNumber = k.newInvoiceNumber]_vars

\* A rename has succeeded and the header carries a number the allocator did
\* not give it.
C7_Witness ==
    \E c \in Clients, h \in DOMAIN headers :
        /\ call[c].pc = "done" /\ call[c].op = "update" /\ call[c].result = "ok"
        /\ headers[h].invoiceNumber # created[h].invoiceNumber

\* C8: deleteInvoice on an existing header by a caller who is not its owner
\* throws Unauthorized without having issued a delete, and leaves every
\* document as it was; no deleteInvoice of a non-owner is ever past the check.
C8_NonOwnerDeleteRefused ==
    /\ [](\A c \in Clients :
            call[c].pc \in {"del_items", "del_wait", "del_header"}
            => created[call[c].invoiceId].userId = call[c].userId)
    /\ [][\A c \in Clients :
            LET k == call[c] IN
            (/\ k.pc = "del_get" /\ Steps(c)
             /\ k.invoiceId \in DOMAIN headers
             /\ headers[k.invoiceId].userId # k.userId)
            => /\ call'[c].pc = "done" /\ call'[c].result = "Unauthorized"
               /\ ~call'[c].issued
               /\ store' = store /\ inflight' = inflight]_vars

\* A deleteInvoice has thrown Unauthorized while the header and its item exist.
C8_Witness ==
    \E c \in Clients :
        /\ call[c].pc = "done" /\ call[c].op = "delete"
        /\ call[c].result = "Unauthorized" /\ ~call[c].issued
        /\ headers # EmptyMap /\ items # {}

\* C9: once a deleteInvoice of a header has completed successfully, a
\* deleteInvoice that fetches that header throws NotFound, having issued no
\* write, and leaves every document as it was.
C9_SecondDeleteNotFound ==
    /\ [](\A h \in deletedOk : h \notin DOMAIN headers)
    /\ [][\A c \in Clients :
            LET k == call[c] IN
            (k.pc = "del_get" /\ Steps(c) /\ k.invoiceId \in deletedOk)
            => /\ call'[c].pc = "done" /\ call'[c].result = "NotFound"
               /\ ~call'[c].issued
               /\ store' = store /\ inflight' = inflight]_vars

\* A deleteInvoice has thrown NotFound after another one had succeeded.
C9_Witness ==
    \E c \in Clients :
        /\ call[c].pc = "done" /\ call[c].op = "delete"
        /\ call[c].result = "NotFound" /\ ~call[c].issued
        /\ deletedOk # {}

\* C10: deleteInvoice, updateInvoiceNumber and getInvoiceDetails complete
\* successfully on a header only for the caller who is its owner.
C10_OwnerGatesEveryOperation ==
    [][\A c \in Clients :
         (/\ call[c].op \in {"delete", "update", "details"}
          /\ Ends(c) /\ call'[c].result = "ok")
         => created[call[c].invoiceId].userId = call[c].userId]_vars


(***************************************************************************)
(* The amounts of an invoice, computed from what createInvoice was handed. *)
(***************************************************************************)
\* The number a quantity or price stands for: itself when it is a number, its
\* value when it is a string of digits, 0 when it is missing or not numeric.
ValueOf(x) ==
    IF x.t = "number" THEN x.n
    ELSE IF x.t = "string" /\ x.s # <<>> /\ IsDigits(x.s) THEN ParseNat(x.s) * Scale
    ELSE 0

ExpectedItem(it) ==
    [quantity |-> ValueOf(it.quantity), price |-> ValueOf(it.price),
     total |-> (ValueOf(it.quantity) * ValueOf(it.price)) \div Scale]

RECURSIVE ExpectedSubTotal(_)
ExpectedSubTotal(its) ==
    IF its = <<>> THEN 0
    ELSE ExpectedItem(Head(its)).total + ExpectedSubTotal(Tail(its))

ExpectedDiscount(in) ==
    IF in.discountType = "fixed" THEN in.discountValue
    ELSE (ExpectedSubTotal(in.items) * in.discountValue) \div (100 * Scale)

ExpectedGrandTotal(in) ==
    IF ExpectedSubTotal(in.items) >= ExpectedDiscount(in)
    THEN ExpectedSubTotal(in.items) - ExpectedDiscount(in)
    ELSE 0

\* The header has the amounts of the input in.
AmountsMatch(hdr, in) ==
    /\ hdr.subTotal = ExpectedSubTotal(in.items)
    /\ hdr.discountAmount = ExpectedDiscount(in)
    /\ hdr.grandTotal = ExpectedGrandTotal(in)

\* The place among the items handed in of the item stored under id.
LineOf(in, id) == CHOOSE n \in 1..Len(in.itemIds) : in.itemIds[n] = id

\* The documents its are one per item of the input in, each with the
\* quantity, price and total of its item.
ItemsMatch(its, in) ==
    /\ Cardinality(its) = Len(in.items)
    /\ {i.id : i \in its} = {in.itemIds[n] : n \in 1..Len(in.items)}
    /\ \A i \in its :
         /\ i.quantity = ExpectedItem(in.items[LineOf(in, i.id)]).quantity
         /\ i.price = ExpectedItem(in.items[LineOf(in, i.id)]).price
         /\ i.total = ExpectedItem(in.items[LineOf(in, i.id)]).total

\* C11: a getInvoiceDetails that returns the invoice of a createInvoice (no
\* deleteInvoice runs) returns a header whose subTotal, discountAmount and
\* grandTotal, and items whose quantity, price and total, are the values
\* computed from what createInvoice was handed, one item per input item.
C11_DetailsReturnComputedAmounts ==
    \A c \in Clients :
        (call[c].pc = "done" /\ call[c].op = "details" /\ call[c].result = "ok")
        => /\ call[c].ret.id \in DOMAIN created
           /\ AmountsMatch(call[c].ret.header, created[call[c].ret.id])
           /\ ItemsMatch({call[c].ret.items[n] : n \in 1..Len(call[c].ret.items)},
                         created[call[c].ret.id])
           /\ Len(call[c].ret.items) = created[call[c].ret.id].nItems

\* getInvoiceDetails has returned an invoice of two items, one of them handed
\* in with a string for its quantity and a non-numeric price.
C11_Witness ==
    \E c \in Clients :
        /\ call[c].pc = "done" /\ call[c].op = "details" /\ call[c].result = "ok"
        /\ Len(call[c].ret.items) = 2
        /\ \E k \in 1..2 : created[call[c].ret.id].items[k].quantity.t = "string"
        /\ call[c].ret.header.grandTotal > 0

\* The scenario of C12: items (2, 100) and (1, 50), 10 percent.
ScenarioInput ==
    [items |-> <<[quantity |-> jsNumber(2), price |-> jsNumber(100)],
                 [quantity |-> jsNumber(1), price |-> jsNumber(50)]>>,
     discountType |-> "percentage", discountValue |-> 10 * Scale]

InputOf(h) ==
    [items |-> created[h].items, discountType |-> created[h].discountType,
     discountValue |-> created[h].discountValue]

\* C12: every stored item has total = quantity x price, and every stored
\* header has subTotal = the sum of the item totals, discountAmount =
\* discountValue when fixed and subTotal x discountValue / 100 when percentage,
\* and grandTotal = max(0, subTotal - discountAmount); items (2,100),(1,50)
\* with percentage 10 give 250, 25 and 225.
C12_AmountFormulas ==
    \A h \in DOMAIN headers :
        /\ AmountsMatch(headers[h], created[h])
        /\ ItemsMatch({i \in items : i.hdr = h}, created[h])
        /\ InputOf(h) = ScenarioInput
           => /\ headers[h].subTotal = 250 * Scale
              /\ headers[h].discountAmount = 25 * Scale
              /\ headers[h].grandTotal = 225 * Scale

\* The scenario's invoice is stored, next to an invoice of another call.
C12_Witness ==
    /\ \E h \in DOMAIN headers : InputOf(h) = ScenarioInput
    /\ Cardinality(DOMAIN headers) = 2

\* C13: every stored header has subTotal, discountValue, discountAmount and
\* grandTotal >= 0 and every stored item has quantity and price >= 0.
C13_NonNegativeAmounts ==
    /\ \A h \in DOMAIN headers :
         /\ headers[h].subTotal >= 0 /\ headers[h].discountValue >= 0
         /\ headers[h].discountAmount >= 0 /\ headers[h].grandTotal >= 0
    /\ \A i \in items : i.quantity >= 0 /\ i.price >= 0


(***************************************************************************)
(* The format of a minted number.                                          *)
(***************************************************************************)
TwoDigits(k) == <<DigitChar[(k \div 10) + 1], DigitChar[(k % 10) + 1]>>

\* s is PREFIX/YY/N for the year y and the number n: BILL, the last two digits
\* of the year, and n in decimal with zeros in front up to three characters
\* and none cut off.
IsNumberOf(s, y, n) ==
    /\ Len(s) = (IF n < 1000 THEN 11 ELSE IF n < 10000 THEN 12 ELSE 13)
    /\ SubSeq(s, 1, 5) = <<"B", "I", "L", "L", "/">>
    /\ SubSeq(s, 6, 7) = TwoDigits(y % 100)
    /\ s[8] = "/"
    /\ IsDigits(SubSeq(s, 9, Len(s)))
    /\ ParseNat(SubSeq(s, 9, Len(s))) = n

\* C14: the i-th minted number is PREFIX/YY/N with N = lastInvoiceNumber + 1
\* (the counter at the start plus i, an absent counter document counting as
\* 0), zero-padded to at least three characters and never cut; the first in a
\* fresh scope in 2025 is BILL/25/001 and the 1000th BILL/25/1000; and the
\* last N minted is what the counter document holds.
C14_NumberFormat ==
    /\ \A i \in 1..Len(minted) :
         /\ minted[i] = created[i].invoiceNumber
         /\ IsNumberOf(minted[i], created[i].year, InitialLast + i)
         /\ (created[i].year = 2025 /\ InitialLast + i = 1)
            => minted[i] = <<"B", "I", "L", "L", "/", "2", "5", "/", "0", "0", "1">>
         /\ (created[i].year = 2025 /\ InitialLast + i = 1000)
            => minted[i] = <<"B", "I", "L", "L", "/", "2", "5", "/", "1", "0", "0", "0">>
    /\ minted # <<>> => counter = InitialLast + Len(minted)

\* The 999th and the 1000th number have been minted, the 1000th in 2025.
C14_Witness ==
    /\ initial = 998 /\ Len(minted) = 2
    /\ created[2].year = 2025
    /\ counter = 1000


(***************************************************************************)
(* The reads.                                                              *)
(***************************************************************************)
\* The sequence list holds each of owner's headers in docs once and nothing
\* else, later createdAt first.
ListsOwnersHeaders(list, docs, owner) ==
    /\ {list[n].id : n \in 1..Len(list)}
         = {h \in DOMAIN docs : docs[h].userId = owner}
    /\ \A n, m \in 1..Len(list) : n # m => list[n].id # list[m].id
    /\ \A n \in 1..Len(list) :
         /\ list[n].userId = owner
         /\ list[n].createdAt = docs[list[n].id].createdAt
    /\ \A n, m \in 1..Len(list) :
         n < m => ~TimestampBefore(list[n].createdAt, list[m].createdAt)

\* C15: a getInvoices whose primary query answers returns exactly the headers
\* that exist when the query is answered and whose userId is the owner asked
\* for, each once, none of another user, ordered by createdAt descending.
C15_ListReturnsOwnersHeaders ==
    [][\A c \in Clients :
         (call[c].pc = "list_primary" /\ Ends(c) /\ call'[c].result = "ok")
         => ListsOwnersHeaders(call'[c].ret, headers, call[c].userId)]_vars

\* getInvoices has returned two headers of different createdAt, the header
\* made later in the store being the older by the clocks.
C15_Witness ==
    \E c \in Clients :
        /\ call[c].pc = "done" /\ call[c].op = "list" /\ call[c].result = "ok"
        /\ call[c].error = ""
        /\ Len(call[c].ret) = 2
        /\ call[c].ret[1].id < call[c].ret[2].id
        /\ TimestampBefore(call[c].ret[2].createdAt, call[c].ret[1].createdAt)

\* C16: a getInvoices that answers from its fallback query returns the
\* sequence its primary query would have returned on the same documents.
C16_FallbackSameAsPrimary ==
    [][\A c \in Clients :
         (call[c].pc = "list_fallback" /\ Ends(c) /\ call'[c].result = "ok")
         => call'[c].ret
              = invoicesOf(headers,
                           orderByCreatedAtDesc(headers,
                                                whereUserId(headers, call[c].userId)))]_vars

\* C17: a getInvoices whose fallback query fails throws the error of its
\* primary query and returns nothing.
C17_FallbackFailureThrowsPrimaryError ==
    [][\A c \in Clients :
         (call[c].pc = "list_fallback" /\ Ends(c) /\ call'[c].result # "ok")
         => /\ call'[c].result = call[c].error
            /\ isIndexError(call'[c].result)
            /\ call'[c].ret = NoId]_vars

\* A getInvoices has thrown the missing-index error, which only a failed
\* fallback leaves, while the owner has headers.
C17_Witness ==
    \E c \in Clients :
        /\ call[c].pc = "done" /\ call[c].op = "list"
        /\ call[c].result = "failed-precondition"
        /\ headers # EmptyMap

\* C18: checkInvoiceNumberExists never throws: it returns a boolean, false
\* when its query failed; and no step of it changes a document or sends a
\* write.
C18_CheckNeverFails ==
    /\ [](\A c \in Clients :
            (call[c].pc = "done" /\ call[c].op = "check")
            => /\ call[c].result = "ok"
               /\ call[c].ret \in BOOLEAN
               /\ call[c].error # "" => call[c].ret = FALSE
               /\ ~call[c].issued)
    /\ [][\A c \in Clients :
            (call'[c].op = "check" /\ Steps(c))
            => store' = store /\ inflight' = inflight]_vars

\* A checkInvoiceNumberExists whose query failed has returned, while a header
\* of the store has the number it asked for.
C18_Witness ==
    \E c \in Clients :
        /\ call[c].pc = "done" /\ call[c].op = "check" /\ call[c].error # ""
        /\ call[c].ret = FALSE
        /\ headers # EmptyMap


(***************************************************************************)
(* The frame and the errors of updateInvoiceNumber.                        *)
(***************************************************************************)
\* C19: a successful updateInvoiceNumber changes the invoiceNumber of the
\* header it names and nothing else: that header's other fields, its items,
\* every other header and the counter are as before; and a header has the
\* userId and the createdAt it was created with, whatever calls have run.
C19_RenameChangesOnlyTheNumber ==
    /\ [](\A h \in DOMAIN headers :
            /\ headers[h].userId = created[h].userId
            /\ headers[h].createdAt = created[h].createdAt)
    /\ [][\A c \in Clients :
            LET k == call[c] IN
            (k.pc = "upd_write" /\ Ends(c) /\ call'[c].result = "ok")
            => /\ DOMAIN headers' = DOMAIN headers
               /\ \A h \in DOMAIN headers :
                    headers'[h] = [headers[h] EXCEPT
                                     !.invoiceNumber = headers'[h].invoiceNumber]
               /\ \A h \in DOMAIN headers \ {k.invoiceId} : headers'[h] = headers[h]
               /\ items' = items
               /\ counter' = counter]_vars

\* An updateInvoiceNumber has given a header another number than it had,
\* while a second header and the items of both are in the store.
C19_Witness ==
    \E c \in Clients, h \in DOMAIN headers :
        /\ call[c].pc = "done" /\ call[c].op = "update" /\ call[c].result = "ok"
        /\ headers[h].invoiceNumber # created[h].invoiceNumber
        /\ Cardinality(DOMAIN headers) = 2
        /\ \A g \in DOMAIN headers : \E i \in items : i.hdr = g

\* C20: updateInvoiceNumber throws NotFound when the header it fetches is
\* absent, else Unauthorized when the caller is not its owner, else
\* DuplicateNumber when another header of the caller has the number; and a call
\* that throws one of the three has changed no document and sent no write.
C20_RenameErrorsInOrder ==
    [][\A c \in Clients :
         LET k == call[c] IN
         /\ (k.pc = "upd_get" /\ Steps(c) /\ k.invoiceId \notin DOMAIN headers)
            => call'[c].pc = "done" /\ call'[c].result = "NotFound"
         /\ (/\ k.pc = "upd_get" /\ Steps(c)
             /\ k.invoiceId \in DOMAIN headers
             /\ headers[k.invoiceId].userId # k.userId)
            => call'[c].pc = "done" /\ call'[c].result = "Unauthorized"
         /\ (k.pc = "upd_query" /\ Steps(c) /\ OtherHasNumber(headers, k))
            => call'[c].pc = "done" /\ call'[c].result = "DuplicateNumber"
         /\ (/\ k.op = "update" /\ Ends(c)
             /\ call'[c].result \in {"NotFound", "Unauthorized", "DuplicateNumber"})
            => store' = store /\ ~call'[c].issued]_vars


(***************************************************************************)
(* The counter document.                                                   *)
(***************************************************************************)
\* lastInvoiceNumber of a counter document, an absent one counting as 0.
LastOf(doc) == IF doc = NoDoc THEN 0 ELSE doc

\* C21: lastInvoiceNumber is an integer >= 0 and never decreases: only the
\* commit of a createInvoice changes it, by exactly 1; no step of
\* deleteInvoice, updateInvoiceNumber or getInvoiceDetails and no answer to an
\* item delete changes it; so the minted numbers stay distinct when their
\* invoices are deleted.
C21_CounterOnlyGrowsByCommits ==
    /\ [](/\ counter = NoDoc \/ counter \in Nat
          /\ \A i, j \in 1..Len(minted) : i # j => minted[i] # minted[j])
    /\ [][/\ LastOf(counter') >= LastOf(counter)
          /\ counter' # counter
             => /\ LastOf(counter') = LastOf(counter) + 1
                /\ \E c \in Clients :
                     /\ call[c].op = "create" /\ call[c].pc = "cr_commit"
                     /\ call'[c].pc = "done" /\ call'[c].result = "ok"
          /\ (\E c \in Clients :
                Steps(c) /\ call'[c].op \in {"delete", "update", "details"})
             => counter' = counter
          /\ inflight' # inflight => counter' = counter]_vars

\* Two numbers have been minted, the invoice of one of them has been deleted
\* and the other renamed, and a getInvoiceDetails has returned.
C21_Witness ==
    /\ Len(minted) = 2 /\ counter = 2
    /\ deletedOk # {}
    /\ \E h \in DOMAIN headers : headers[h].invoiceNumber # created[h].invoiceNumber
    /\ \E c \in Clients :
         call[c].pc = "done" /\ call[c].op = "details" /\ call[c].result = "ok"


(***************************************************************************)
(* The order of the items getInvoiceDetails returns.                       *)
(***************************************************************************)
\* C22: a getInvoiceDetails that returns the invoice of a createInvoice (no
\* deleteInvoice runs) returns its items in the order in which they were
\* handed to createInvoice, whatever ids the store generated for them.
C22_ItemsInInsertionOrder ==
    \A c \in Clients :
        (call[c].pc = "done" /\ call[c].op = "details" /\ call[c].result = "ok")
        => /\ Len(call[c].ret.items) = created[call[c].ret.id].nItems
           /\ \A n \in 1..Len(call[c].ret.items) :
                call[c].ret.items[n].id = created[call[c].ret.id].itemIds[n]


(***************************************************************************)
(* deleteInvoice and its failures.                                         *)
(***************************************************************************)
\* The items of header h in the store.
ItemsOf(h) == {i \in items : i.hdr = h}

\* No deleteInvoice of header h is running and no deleteDoc of one of its
\* items is on its way.
Settled(h) ==
    /\ \A c \in Clients :
         ~(call[c].op = "delete" /\ call[c].pc # "done" /\ call[c].invoiceId = h)
    /\ \A r \in inflight : r.hdr # h

\* C23: once the deleteInvoice calls of a header have ended and their item
\* deletes have been answered, a header that is still there has all of its
\* items or none of them, whichever deletes were refused.
C23_AllItemsOrNone ==
    \A h \in DOMAIN headers :
        Settled(h) => Cardinality(ItemsOf(h)) \in {0, created[h].nItems}


\* C24: no item is in the store without its header; a deleteInvoice that is
\* about to delete the header has had every item delete it issued answered,
\* and no item of the header is left, also when several deleteInvoice calls
\* run on the same invoice and after failures.
C24_NoOrphanedItems ==
    /\ \A i \in items : i.hdr \in DOMAIN headers
    /\ \A c \in Clients :
         call[c].pc = "del_header"
         => /\ \A r \in inflight : r.client # c
            /\ ItemsOf(call[c].invoiceId) = {}

\* A deleteInvoice has removed the header while another deleteInvoice of the
\* same invoice waits for its item deletes and a delete issued by a call that
\* failed is still on its way.
C24_Witness ==
    /\ deletedOk # {} /\ headers = EmptyMap
    /\ \E c \in Clients : call[c].pc = "del_wait"
    /\ \E r \in inflight : r.client = 0


\* Client c's deleteInvoice has fetched nothing yet and the header it names is
\* there and its caller's.
DeleteByOwnerStarts(c) ==
    /\ call[c].pc = "del_get"
    /\ call[c].invoiceId \in DOMAIN headers
    /\ headers[call[c].invoiceId].userId = call[c].userId

\* C25: a deleteInvoice by the owner, started in whatever state failed
\* deleteInvoice calls have left the invoice, passes its checks, and unless the
\* store refuses one of its requests it ends with the header and every item of
\* it removed; answers to deletes of items that are already gone do not make
\* it fail.
C25_RetryCompletesDelete ==
    /\ [][\A c \in Clients :
            LET k == call[c] IN
            /\ (DeleteByOwnerStarts(c) /\ Steps(c)) => call'[c].pc = "del_items"
            /\ (k.op = "delete" /\ Ends(c) /\ call'[c].result = "ok")
               => /\ k.invoiceId \notin DOMAIN headers'
                  /\ \A i \in items' : i.hdr # k.invoiceId
            /\ (k.op = "delete" /\ Ends(c) /\ k.pc # "del_get")
               => call'[c].result \in {"ok", "StoreError"}]_vars
    /\ \A c \in Clients, h \in Ids :
         (DeleteByOwnerStarts(c) /\ call[c].invoiceId = h)
         ~> \/ h \notin DOMAIN headers /\ ItemsOf(h) = {}
            \/ call[c].pc = "done" /\ call[c].result = "StoreError"

\* A deleteInvoice is about to delete the header of an invoice of which an
\* earlier deleteInvoice failed, and a delete of an item that is gone already
\* is still to be answered.
C25_Witness ==
    \E c \in Clients :
        /\ call[c].pc = "del_header"
        /\ \E r \in inflight :
             /\ r.client = 0 /\ r.hdr = call[c].invoiceId
             /\ \A i \in items : ~(i.hdr = r.hdr /\ i.id = r.id)


(***************************************************************************)
(* getInvoiceDetails next to deleteInvoice.                                *)
(***************************************************************************)
\* C26: a getInvoiceDetails that returns, returns the header with the complete
\* set of the items it was created with, also when a deleteInvoice of the same
\* header runs at the same time.
C26_DetailsCompleteOrNotFound ==
    \A c \in Clients :
        (call[c].pc = "done" /\ call[c].op = "details")
        => \/ call[c].result = "NotFound"
           \/ /\ call[c].result = "ok"
              /\ {call[c].ret.items[n].id : n \in 1..Len(call[c].ret.items)}
                   = {created[call[c].ret.id].itemIds[n] :
                        n \in 1..created[call[c].ret.id].nItems}


(***************************************************************************)
(* Concurrent renames.                                                     *)
(***************************************************************************)
\* C27: the updateDoc of an updateInvoiceNumber that has passed its check is
\* not checked again: when by then another header of the caller carries the
\* number (a concurrent rename wrote it), the call still succeeds, the header
\* gets the number and the other header keeps it.
C27_RenameCheckNotTransactional ==
    [][\A c \in Clients :
         LET k == call[c] IN
         (/\ k.pc = "upd_write" /\ Steps(c)
          /\ k.invoiceId \in DOMAIN headers
          /\ OtherHasNumber(headers, k))
         => /\ call'[c].pc = "done" /\ call'[c].result = "ok"
            /\ headers'[k.invoiceId].invoiceNumber = k.newInvoiceNumber
            /\ \A h \in DOMAIN headers \ {k.invoiceId} : headers'[h] = headers[h]
            /\ OtherHasNumber(headers', k)]_vars

\* Two headers of one user carry a number neither was minted with, and both
\* clients' updateInvoiceNumber calls have succeeded: each passed its check
\* before the other wrote.
C27_Witness ==
    /\ \A c \in Clients :
         call[c].pc = "done" /\ call[c].op = "update" /\ call[c].result = "ok"
    /\ \E g, h \in DOMAIN headers :
         /\ g # h /\ headers[g].userId = headers[h].userId
         /\ headers[g].invoiceNumber = FreeNumber
         /\ headers[h].invoiceNumber = FreeNumber


(***************************************************************************)
(* The transaction of createInvoice and its retries.                       *)
(***************************************************************************)
\* C28: an attempt of createInvoice that is discarded on a conflict writes
\* nothing; and the commit of a createInvoice whose body has run again after
\* conflicts adds exactly one header, with the caller's userId and the number
\* after the counter as it is now, exactly one item per item handed in, all
\* under that header, advances the counter by exactly 1, changes nothing else,
\* and returns the id of that header.
C28_RetriedCreateWritesOnce ==
    [][\A c \in Clients :
         LET k == call[c] IN
         /\ (k.pc = "cr_commit" /\ Steps(c) /\ call'[c].pc = "cr_get")
            => store' = store /\ usedIds' = usedIds
         /\ (/\ k.pc = "cr_commit" /\ Steps(c) /\ k.attempts >= 2
             /\ call'[c].pc = "done" /\ call'[c].result = "ok")
            => /\ Cardinality(DOMAIN headers' \ DOMAIN headers) = 1
               /\ DOMAIN headers \subseteq DOMAIN headers'
               /\ \A g \in DOMAIN headers : headers'[g] = headers[g]
               /\ call'[c].ret \in DOMAIN headers' \ DOMAIN headers
               /\ headers'[call'[c].ret].userId = k.userId
               /\ Suffix(headers'[call'[c].ret].invoiceNumber) = LastOf(counter) + 1
               /\ items \subseteq items'
               /\ \A i \in items' \ items : i.hdr = call'[c].ret
               /\ Cardinality(items' \ items) = Len(k.items)
               /\ counter' = LastOf(counter) + 1]_vars

\* A createInvoice of two items has committed at its second attempt, and its
\* header and its two items are in the store.
C28_Witness ==
    \E c \in Clients :
        /\ call[c].pc = "done" /\ call[c].op = "create" /\ call[c].result = "ok"
        /\ call[c].attempts >= 2
        /\ call[c].ret \in DOMAIN headers
        /\ created[call[c].ret].nItems = 2
        /\ Cardinality(ItemsOf(call[c].ret)) = 2


\* Client c's createInvoice is running.
Creating(c) == call[c].pc \in {"cr_get", "cr_commit"}

\* C29: every createInvoice ends: it commits, or throws after the store's
\* bounded number of attempts (the model lets the calls end that find an id
\* left for their header).  An attempt is discarded only when another
\* createInvoice has committed since it read the counter, so of the creators
\* that read the same counter one commits, and a call that used up its
\* attempts has seen as many commits of others.
C29_CreateTerminates ==
    /\ \A c \in Clients :
         Creating(c) ~> (call[c].pc = "done" \/ FreeIds = {})
    /\ [](\A c \in Clients :
            /\ call[c].attempts <= MaxAttempts
            /\ (call[c].pc = "done" /\ call[c].result = "Aborted")
               => call[c].attempts = MaxAttempts /\ Len(minted) >= MaxAttempts)
    /\ [][\A c \in Clients :
            (call[c].pc = "cr_commit" /\ Steps(c) /\ call'[c].result # "StoreError"
             /\ ~(call'[c].pc = "done" /\ call'[c].result = "ok"))
            => /\ LastOf(counter) > LastOf(call[c].counterDoc)
               /\ Len(minted) >= call[c].attempts]_vars

\* Both clients' createInvoice calls have ended, one of them thrown after
\* using up its attempts, and every id has a committed header.
C29_Witness ==
    /\ \E c \in Clients :
         /\ call[c].pc = "done" /\ call[c].op = "create"
         /\ call[c].result = "Aborted"
    /\ \E c \in Clients :
         /\ call[c].pc = "done" /\ call[c].op = "create"
         /\ call[c].result = "ok"
    /\ Len(minted) = MaxIds


(***************************************************************************)
(* createdAt.                                                              *)
(***************************************************************************)
\* C30: of two committed headers the one that committed later has the later
\* or equal createdAt (header ids are given in commit order).
C30_CreatedAtFollowsCommitOrder ==
    \A g, h \in DOMAIN created :
        g < h => ~TimestampBefore(created[h].createdAt, created[g].createdAt)


C32_CheckFindsOtherHeader ==
    [][\A c \in Clients :
         LET k == call[c] IN
         (k.pc = "chk_query" /\ Ends(c) /\ call'[c].error = "")
         => call'[c].ret = OtherHasNumber(headers, k)]_vars


(***************************************************************************)
(* The InvoiceForm.                                                        *)
(***************************************************************************)
\* C33: a handleSubmit of a form whose customer name is empty or one of whose
\* descriptions is empty calls nothing and adds nothing: no call of the
\* service is started, the guest invoices and the store (the counter in it)
\* stay as they are, the form is not submitting, and the error message is set.
C33_BlankFormRejected ==
    [][(/\ handleSubmit
        /\ \/ app.customerName = ""
           \/ \E i \in 1..Len(app.descriptions) : app.descriptions[i] = "")
       => /\ call' = call
          /\ app'.guestInvoices = app.guestInvoices
          /\ store' = store
          /\ ~app'.isSubmitting
          /\ app'.error = FormError]_vars

\* A form with a customer name and two items, the second description empty,
\* has been submitted: the error is shown, no invoice was made.
C33_Witness ==
    /\ ShowsForm(app)
    /\ app.customerName = "A"
    /\ Len(app.descriptions) = 2
    /\ app.descriptions[1] = "x" /\ app.descriptions[2] = ""
    /\ app.error = FormError
    /\ app.guestInvoices = <<>> /\ headers = EmptyMap


(***************************************************************************)
(* The history list of the App.                                            *)
(***************************************************************************)
\* C34: whenever the history list is displayed to a signed-in user who is not
\* the guest, every invoice in it has the userId of that user.
C34_ListShowsOwnInvoices ==
    (ShowsList(app) /\ SignedIn(app))
    => \A i \in 1..Len(app.invoices) : app.invoices[i].userId = app.user

\* C35: once every fetchInvoices call has come back, and the one issued last
\* was answered with a list, the invoices of the App are that list.
C35_LastFetchWins ==
    (/\ app.fetches = {}
     /\ app.issued > 0
     /\ app.results[app.issued].stage = "ok")
    => app.invoices = app.results[app.issued].data


(***************************************************************************)
(* The guest session.                                                      *)
(***************************************************************************)
\* C36: the invoices of a guest session have pairwise distinct invoice
\* numbers.
C36_GuestNumbersDistinct ==
    Guest(app)
    => \A i, j \in 1..Len(app.guestInvoices) :
         i # j => app.guestInvoices[i].invoiceNumber # app.guestInvoices[j].invoiceNumber


(***************************************************************************)
(* The InvoicePrintTemplate.                                               *)
(***************************************************************************)
\* C37: at most one PDF generation of the mounted preview is in progress.
C37_OneGenerationAtATime == app.generating <= 1

=============================================================================
